---- MODULE Spec2Model ----
(***************************************************************************)
(* Model of the task store (DatabaseService over one shared SQLite         *)
(* connection), the task service in front of it (TasksService), the        *)
(* message service (MessagesService.sendMessage) and the tool-calling loop *)
(* (LangchainService.generateTaskAwareReply).                              *)
(*                                                                         *)
(* Every `await this.run/get/all(...)` of DatabaseService is one atomic    *)
(* step: SQLite executes one statement at a time on the connection, and    *)
(* between two awaited statements of one request the statements of other   *)
(* requests may run.                                                       *)
(*                                                                         *)
(* Texts (title, description, message text) are sequences of one-character *)
(* strings so that trimming and length checks are computed.                *)
(***************************************************************************)
EXTENDS Integers, Sequences, FiniteSets, TLC

\* ------------------------------------------------------------------ bounds
\* Rows a store specification may insert into tasks (caps AUTOINCREMENT).
MaxTasks == 3

\* largest rowid of task_links a relation request may start from
MaxLinkRowid == 4

\* seconds the clock of the database host may advance
MaxClock == 2

\* turns that requests other than the observed one may save
MaxTurns == 2

\* --------------------------------------------------------------- constants
\* padStart(4, '0') of the numeric suffix of a code.
CodeWidth == 4

TASK_TYPES == {"epic", "task", "subtask"}

TASK_STATUSES == {"backlog", "in_progress", "done"}

\* the code units String.prototype.trim strips: WhiteSpace and LineTerminator
\* of ECMAScript; a character outside ASCII is written as its code point
Whitespace ==
    {" ", "\t", "\n", "\r", "\f", "U+000B", "U+00A0", "U+1680", "U+2000",
     "U+2001", "U+2002", "U+2003", "U+2004", "U+2005", "U+2006", "U+2007",
     "U+2008", "U+2009", "U+200A", "U+2028", "U+2029", "U+202F", "U+205F",
     "U+3000", "U+FEFF"}

\* Client requests: concurrent HTTP requests on the one DatabaseService.
Clients == {"c1", "c2"}

Agent == "agent"

Procs == Clients \cup {Agent}

VARIABLES
    tasks,        \* rows of table tasks
    taskSeq,      \* sqlite_sequence of tasks (AUTOINCREMENT: largest id ever used)
    task_links,   \* rows of table task_links: [rowid, parent_id, child_id]
    chat,         \* rows of table messages, in insertion order
    lastRowid,    \* last_insert_rowid() of the shared connection
    now,          \* CURRENT_TIMESTAMP of the database host, in seconds
    chatSeq,      \* sqlite_sequence of messages
    op,           \* per request: the store operation in progress
    issued,       \* history: the codes returned by createTask, in order of return
    lpc,          \* where the sendMessage request is
    input,        \* userText of the sendMessage request
    messages,     \* messages: BaseMessage[] of generateTaskAwareReply
    step,         \* loop variable of generateTaskAwareReply
    response,     \* the AIMessage of the current step
    idx,          \* position of the for-of over response.tool_calls (1-based)
    reply,        \* botReply: what generateTaskAwareReply returned
    saved,        \* what sendMessage returned
    invocations,  \* history: number of toolModel.invoke calls of the request
    toolLog       \* history: start and outcome of each tool func, [step, idx, at, event]

storeVars == <<tasks, taskSeq, task_links, chat, chatSeq, lastRowid, now>>

loopVars == <<lpc, input, messages, step, response, idx, reply, saved, invocations, toolLog>>

\* ------------------------------------------------------------ pure helpers
RECURSIVE TrimStart(_)
TrimStart(s) ==
    IF s # <<>> /\ Head(s) \in Whitespace THEN TrimStart(Tail(s)) ELSE s

RECURSIVE TrimEnd(_)
TrimEnd(s) ==
    IF s # <<>> /\ s[Len(s)] \in Whitespace
    THEN TrimEnd(SubSeq(s, 1, Len(s) - 1))
    ELSE s

\* mutant of Trim: the string as it is
TrimNothing(s) == s

\* String.prototype.trim
Trim(s) == TrimEnd(TrimStart(s))

RECURSIVE Digits(_)
\* String(n) for n >= 0: the decimal digits of n, most significant first
Digits(n) == IF n < 10 THEN <<n>> ELSE Append(Digits(n \div 10), n % 10)

RECURSIVE PadStart(_, _)
\* digits.padStart(width, '0')
PadStart(ds, width) == IF Len(ds) >= width THEN ds ELSE PadStart(<<0>> \o ds, width)

\* `TASK-${String(n).padStart(4, '0')}`
FormatCode(n) == [prefix |-> "TASK-", digits |-> PadStart(Digits(n), CodeWidth)]

RECURSIVE DigitsValue(_)
DigitsValue(ds) ==
    IF ds = <<>> THEN 0 ELSE 10 * DigitsValue(SubSeq(ds, 1, Len(ds) - 1)) + ds[Len(ds)]

\* CAST(substr(code, instr(code, '-') + 1) AS INTEGER)
CodeSuffix(code) == DigitsValue(code.digits)

SetMax(S) == CHOOSE m \in S : \A x \in S : x <= m

\* SELECT COALESCE(MAX(CAST(... AS INTEGER)), 0) + 1 FROM tasks WHERE code LIKE 'TASK-%'
NextCodeNumber(rows) ==
    LET suffixes == {CodeSuffix(r.code) : r \in {t \in rows : t.code.prefix = "TASK-"}}
    IN  (IF suffixes = {} THEN 0 ELSE SetMax(suffixes)) + 1

TaskIds == {t.id : t \in tasks}

TaskById(id) == CHOOSE t \in tasks : t.id = id

\* the record createTask / updateTask build from the row they read; the parents
\* and children arrays are sets here (task_links holds no pair twice)
TaskRecord(row) ==
    [id |-> row.id, type |-> row.type, title |-> row.title,
     description |-> row.description, status |-> row.status, code |-> row.code,
     createdAt |-> row.created_at, parents |-> {}, children |-> {}]

\* ------------------------------------------------- optional values (x?: T)
\* undefined is the empty sequence, a present value v is <<v>>
None == <<>>

Some(v) == <<v>>

\* obj.f of a JavaScript object: a record that may lack the field
Field(obj, f) == IF f \in DOMAIN obj THEN Some(obj[f]) ELSE None

\* !s for an optional string: undefined or the empty string
FalsyString(s) == s = None \/ s[1] = ""

\* -------------------------------------------------------- TasksService
BadRequest(msg) == [error |-> "BadRequestException", message |-> msg]

NotFound(msg) == [error |-> "NotFoundException", message |-> msg]

PlainError(msg) == [error |-> "Error", message |-> msg]

IsError(v) == "error" \in DOMAIN v

\* a parseType that accepts every non-empty type
parseTypeAny(type) ==
    IF FalsyString(type) THEN BadRequest("Task type is required")
    ELSE [value |-> type[1]]

\* parseType(type?): the type, or the exception it throws
parseType(type) ==
    IF FalsyString(type) THEN BadRequest("Task type is required")
    ELSE IF type[1] \notin TASK_TYPES THEN BadRequest("Unknown task type")
    ELSE [value |-> type[1]]

\* parseStatus(status?, fallback?)
parseStatus(status, fallback) ==
    IF FalsyString(status)
    THEN IF ~FalsyString(fallback) THEN [value |-> fallback[1]]
         ELSE BadRequest("Task status is required")
    ELSE IF status[1] \notin TASK_STATUSES THEN BadRequest("Unknown task status")
    ELSE [value |-> status[1]]

\* parseDescription(description?): the trimmed text, or the exception
parseDescription(description) ==
    LET value == IF description = None THEN <<>> ELSE Trim(description[1])
    IN  IF value = <<>> THEN BadRequest("Task description is required")
        ELSE [value |-> value]

\* TasksService.create up to its call of databaseService.createTask: the
\* object {type, description, status} it hands over, or the first exception
\* thrown; no other field of the payload is read
ValidateCreate(payload) ==
    LET type == parseType(Field(payload, "type"))
        description == parseDescription(Field(payload, "description"))
        status == parseStatus(Field(payload, "status"), Some("backlog"))
    IN  IF IsError(type) THEN type
        ELSE IF IsError(description) THEN description
        ELSE IF IsError(status) THEN status
        ELSE [type |-> type.value, description |-> description.value,
              status |-> status.value]

\* ------------------------------------------------------ operation frames
Idle == [pc |-> "idle"]

Returned(name, value) == [pc |-> "returned", name |-> name, ret |-> value]

Threw(name, err) == [pc |-> "threw", name |-> name, ret |-> err]

\* a store operation whose promise is never settled
NeverFinished(p) == FALSE

Finished(p) == op[p].pc \in {"returned", "threw"}

\* ------------------------------------------------- DatabaseService.createTask
\* the frame of a create call that ended; name: "create" for a call of
\* TasksService.create, "createTask" for a direct call of the store; payload:
\* the argument of the call
CreateEnded(f, frame) == frame @@ [payload |-> f.payload]

\* databaseService.createTask(task): the first statement is issued
CreateTaskBegin(p, task) ==
    op' = [op EXCEPT ![p] = [pc |-> "createTask:next", name |-> "createTask",
                             task |-> task, payload |-> task]]

\* TasksService.create: validation, then createTask({type, description, status})
CreateBegin(p, payload) ==
    LET v == ValidateCreate(payload)
    IN  op' = [op EXCEPT ![p] =
                  IF IsError(v) THEN CreateEnded([payload |-> payload], Threw("create", v))
                  ELSE [pc |-> "createTask:next", name |-> "create", task |-> v,
                        payload |-> payload]]

\* const next = await this.get(SELECT COALESCE(MAX(...), 0) + 1 ...)
CreateTaskSelectNext(p) ==
    /\ op[p].pc = "createTask:next"
    /\ op' = [op EXCEPT ![p] = [pc |-> "createTask:insert", name |-> op[p].name,
                                task |-> op[p].task, payload |-> op[p].payload,
                                next |-> NextCodeNumber(tasks)]]
    /\ UNCHANGED <<storeVars, issued, loopVars>>

\* columns type, title, description, status are NOT NULL: a parameter that is
\* undefined (task lacks the field) is bound as NULL
BindsNoNull(task) == {"type", "title", "description", "status"} \subseteq DOMAIN task

\* the row the INSERT of createTask adds
InsertedTaskRow(task, code) ==
    [id |-> taskSeq + 1, type |-> task.type, title |-> task.title,
     description |-> task.description, status |-> task.status, code |-> code,
     created_at |-> now]

\* mutant of TaskConstraintsHold: table tasks without UNIQUE on code
TaskConstraintsHoldCodeFree(row) ==
    /\ row.type \in {"epic", "task", "subtask"}
    /\ row.status \in {"backlog", "in_progress", "done"}

\* constraints of table tasks: CHECK (type ...), CHECK (status ...), code UNIQUE
TaskConstraintsHold(row) ==
    /\ row.type \in {"epic", "task", "subtask"}
    /\ row.status \in {"backlog", "in_progress", "done"}
    /\ \A t \in tasks : t.code # row.code

\* await this.run(INSERT INTO tasks (type, title, description, status, code) ...)
CreateTaskInsert(p) ==
    /\ op[p].pc = "createTask:insert"
    /\ LET row == InsertedTaskRow(op[p].task, FormatCode(op[p].next))
       IN  IF BindsNoNull(op[p].task) /\ TaskConstraintsHold(row)
           THEN /\ tasks' = tasks \cup {row}
                /\ taskSeq' = row.id
                /\ lastRowid' = row.id
                /\ op' = [op EXCEPT ![p] = [pc |-> "createTask:read", name |-> op[p].name,
                                            task |-> op[p].task, next |-> op[p].next,
                                            payload |-> op[p].payload]]
           ELSE /\ op' = [op EXCEPT ![p] =
                             CreateEnded(op[p], Threw(op[p].name,
                                                      PlainError("SQLITE_CONSTRAINT")))]
                /\ UNCHANGED <<tasks, taskSeq, lastRowid>>
    /\ UNCHANGED <<task_links, chat, chatSeq, now, issued, loopVars>>

\* const row = await this.get(SELECT * FROM tasks WHERE id = last_insert_rowid())
CreateTaskReadBack(p) ==
    /\ op[p].pc = "createTask:read"
    /\ IF lastRowid \in TaskIds
       THEN /\ op' = [op EXCEPT ![p] =
                         CreateEnded(op[p], Returned(op[p].name,
                                                     TaskRecord(TaskById(lastRowid))))]
            /\ issued' = Append(issued, TaskById(lastRowid).code)
       ELSE /\ op' = [op EXCEPT ![p] =
                         CreateEnded(op[p], Threw(op[p].name,
                                                  PlainError("Failed to read saved task")))]
            /\ UNCHANGED issued
    /\ UNCHANGED <<storeVars, loopVars>>

\* ------------------------------------------------- DatabaseService.deleteTask
DeleteBegin(p, id) ==
    op' = [op EXCEPT ![p] = [pc |-> "deleteTask:select", name |-> "delete", id |-> id]]

\* a deleteTask that skips the test of the row it selected
ExistingAlways(id) == TRUE

\* existing: SELECT id FROM tasks WHERE id = ? returned a row
Existing(id) == id \in TaskIds

\* const existing = await this.get(SELECT id ...); if (!existing) throw new Error('Task not found')
DeleteTaskSelect(p) ==
    /\ op[p].pc = "deleteTask:select"
    /\ op' = [op EXCEPT ![p] =
                 IF Existing(op[p].id)
                 THEN [pc |-> "deleteTask:links", name |-> "delete", id |-> op[p].id]
                 ELSE Threw("delete", PlainError("Task not found")) @@ [id |-> op[p].id]]
    /\ UNCHANGED <<storeVars, issued, loopVars>>

\* a WHERE clause that forgets the child side
IncidentAsParent(l, id) == l.parent_id = id

\* WHERE parent_id = ? OR child_id = ?
Incident(l, id) == l.parent_id = id \/ l.child_id = id

\* await this.run(DELETE FROM task_links WHERE parent_id = ? OR child_id = ?);
\* removed: the rows the statement deleted
DeleteTaskLinks(p) ==
    /\ op[p].pc = "deleteTask:links"
    /\ task_links' = {l \in task_links : ~Incident(l, op[p].id)}
    /\ op' = [op EXCEPT ![p] =
                 [pc |-> "deleteTask:row", name |-> "delete", id |-> op[p].id,
                  removed |-> {l \in task_links : Incident(l, op[p].id)}]]
    /\ UNCHANGED <<tasks, taskSeq, chat, chatSeq, lastRowid, now, issued, loopVars>>

\* await this.run(DELETE FROM tasks WHERE id = ?)
DeleteTaskRow(p) ==
    /\ op[p].pc = "deleteTask:row"
    /\ tasks' = {t \in tasks : t.id # op[p].id}
    /\ op' = [op EXCEPT ![p] = Returned("delete", [id |-> op[p].id,
                                                   removed |-> op[p].removed])]
    /\ UNCHANGED <<taskSeq, task_links, chat, chatSeq, lastRowid, now, issued, loopVars>>

\* a statement of deleteTask fails: run / get reject with the error of the
\* database, and deleteTask rejects with it; removed: the links the call had
\* deleted by then
DeleteFailed(f, removed) ==
    [pc |-> "threw", name |-> "delete", ret |-> PlainError("SQLITE_ERROR"),
     id |-> f.id, failedAt |-> f.pc, removed |-> removed]

\* SELECT id FROM tasks WHERE id = ? fails
DeleteTaskSelectFails(p) ==
    /\ op[p].pc = "deleteTask:select"
    /\ op' = [op EXCEPT ![p] = DeleteFailed(op[p], {})]
    /\ UNCHANGED <<storeVars, issued, loopVars>>

\* DELETE FROM task_links ... fails: the statement changes nothing
DeleteTaskLinksFails(p) ==
    /\ op[p].pc = "deleteTask:links"
    /\ op' = [op EXCEPT ![p] = DeleteFailed(op[p], {})]
    /\ UNCHANGED <<storeVars, issued, loopVars>>

\* DELETE FROM tasks WHERE id = ? fails: the statement changes nothing
DeleteTaskRowFails(p) ==
    /\ op[p].pc = "deleteTask:row"
    /\ op' = [op EXCEPT ![p] = DeleteFailed(op[p], op[p].removed)]
    /\ UNCHANGED <<storeVars, issued, loopVars>>

\* -------------------------------------------------- DatabaseService.listTasks
ListBegin(p, filter) ==
    op' = [op EXCEPT ![p] = [pc |-> "listTasks:rows", name |-> "list", filter |-> filter]]

\* const rows = await this.all(SELECT * FROM tasks ORDER BY created_at DESC)
ListTasksRows(p) ==
    /\ op[p].pc = "listTasks:rows"
    /\ op' = [op EXCEPT ![p] = [pc |-> "listTasks:links", name |-> "list",
                                filter |-> op[p].filter, rows |-> tasks]]
    /\ UNCHANGED <<storeVars, issued, loopVars>>

\* the {id, code, title} reference of a task row
TaskRef(row) == [id |-> row.id, code |-> row.code, title |-> row.title]

\* the (parent_id, child_id) pairs of a set of task_links rows
LinkPairs(links) == {<<l.parent_id, l.child_id>> : l \in links}

\* rows.map(...): each row with the rows its links resolve to (byId.get, filter(Boolean))
ListResult(rows, links) ==
    {[TaskRecord(row) EXCEPT
         !.parents = {TaskRef(r) : r \in {x \in rows : <<x.id, row.id>> \in LinkPairs(links)}},
         !.children = {TaskRef(r) : r \in {x \in rows : <<row.id, x.id>> \in LinkPairs(links)}}]
     : row \in rows}

\* const links = await this.all(SELECT parent_id, child_id FROM task_links)
ListTasksLinks(p) ==
    /\ op[p].pc = "listTasks:links"
    /\ op' = [op EXCEPT ![p] =
                 [pc |-> "returned", name |-> "list", filter |-> op[p].filter,
                  ret |-> ListResult(op[p].rows, task_links)]]
    /\ UNCHANGED <<storeVars, issued, loopVars>>

\* ------------------------------------------- DatabaseService.setTaskRelations
\* the rowid SQLite gives a new row of task_links: one more than the largest in the table
NextLinkRowid ==
    IF task_links = {} THEN 1 ELSE SetMax({l.rowid : l \in task_links}) + 1

\* PRIMARY KEY (parent_id, child_id): no row of the table has this pair
LinkKeyFree(parent, child) == <<parent, child>> \notin LinkPairs(task_links)

\* a run of the INSERT that ignores the primary key
InsertsAlways(parent, child) == TRUE

\* INSERT OR IGNORE: the row is inserted unless its key is taken
Inserts(parent, child) == LinkKeyFree(parent, child)

\* run(INSERT OR IGNORE INTO task_links (parent_id, child_id) VALUES (?, ?))
InsertOrIgnoreLink(parent, child) ==
    IF Inserts(parent, child)
    THEN /\ task_links' = task_links \cup
                {[rowid |-> NextLinkRowid, parent_id |-> parent, child_id |-> child]}
         /\ lastRowid' = NextLinkRowid
    ELSE UNCHANGED <<task_links, lastRowid>>

\* a loop that skips nothing
NeverSkipped(otherId, taskId) == FALSE

\* if (parentId === taskId) continue; / if (childId === taskId) continue;
IsSelfReference(otherId, taskId) == otherId = taskId

\* position of the first id from position i on that the loop does not skip
RECURSIVE NextIndex(_, _, _)
NextIndex(list, i, taskId) ==
    IF i > Len(list) THEN i
    ELSE IF IsSelfReference(list[i], taskId) THEN NextIndex(list, i + 1, taskId)
    ELSE i

\* the frame of a setTaskRelations call; prev: the arguments of the call of the
\* same caller that returned right before this one started, if any; was: the
\* parents and children task_links held for the task when the call started
RelFrame(pc, f, i) ==
    [pc |-> pc, name |-> "setRelations", id |-> f.id, parents |-> f.parents,
     children |-> f.children, prev |-> f.prev, was |-> f.was, i |-> i]

\* for (const childId of children) from position i on, then the return
RelNextChild(f, i) ==
    LET j == NextIndex(f.children[1], i, f.id)
    IN  IF j <= Len(f.children[1]) THEN RelFrame("setTaskRelations:insertChild", f, j)
        ELSE Returned("setRelations", [id |-> f.id, parents |-> f.parents,
                                       children |-> f.children, prev |-> f.prev,
                                       was |-> f.was])

\* if (children) { ... } after the parents part
RelChildrenPart(f) ==
    IF f.children # None THEN RelFrame("setTaskRelations:deleteChildren", f, 0)
    ELSE Returned("setRelations", [id |-> f.id, parents |-> f.parents,
                                   children |-> f.children, prev |-> f.prev,
                                   was |-> f.was])

\* for (const parentId of parents) from position i on, then the children part
RelNextParent(f, i) ==
    LET j == NextIndex(f.parents[1], i, f.id)
    IN  IF j <= Len(f.parents[1]) THEN RelFrame("setTaskRelations:insertParent", f, j)
        ELSE RelChildrenPart(f)

\* a full replace that keeps the previous rows
KeepsLinks(l, taskId, column) == TRUE

\* mutant of KeptBy: DELETE ... WHERE child_id = ? OR parent_id = ?
KeptByNeither(l, taskId, column) == l.parent_id # taskId /\ l.child_id # taskId

\* DELETE FROM task_links WHERE child_id = ? / WHERE parent_id = ?: the rows kept
KeptBy(l, taskId, column) == l[column] # taskId

\* the parent ids and the child ids task_links holds for a task
LinkedIds(taskId) ==
    [parents |-> {l.parent_id : l \in {x \in task_links : x.child_id = taskId}},
     children |-> {l.child_id : l \in {x \in task_links : x.parent_id = taskId}}]

\* the call of caller p that has just returned, when it was a setTaskRelations
PreviousRelations(p) ==
    IF op[p].pc = "returned" /\ op[p].name = "setRelations"
    THEN Some([id |-> op[p].ret.id, parents |-> op[p].ret.parents,
               children |-> op[p].ret.children])
    ELSE None

\* setTaskRelations(taskId, parents, children) up to its first statement
SetRelationsBegin(p, taskId, parents, children) ==
    LET f == [id |-> taskId, parents |-> parents, children |-> children,
              prev |-> PreviousRelations(p), was |-> LinkedIds(taskId)]
    IN  op' = [op EXCEPT ![p] =
                  IF parents # None THEN RelFrame("setTaskRelations:deleteParents", f, 0)
                  ELSE RelChildrenPart(f)]

\* await this.run('DELETE FROM task_links WHERE child_id = ?', [taskId])
SetRelationsDeleteParents(p) ==
    /\ op[p].pc = "setTaskRelations:deleteParents"
    /\ task_links' = {l \in task_links : KeptBy(l, op[p].id, "child_id")}
    /\ op' = [op EXCEPT ![p] = RelNextParent(op[p], 1)]
    /\ UNCHANGED <<tasks, taskSeq, chat, chatSeq, lastRowid, now, issued, loopVars>>

\* await this.run('INSERT OR IGNORE ...', [parentId, taskId])
SetRelationsInsertParent(p) ==
    /\ op[p].pc = "setTaskRelations:insertParent"
    /\ InsertOrIgnoreLink(op[p].parents[1][op[p].i], op[p].id)
    /\ op' = [op EXCEPT ![p] = RelNextParent(op[p], op[p].i + 1)]
    /\ UNCHANGED <<tasks, taskSeq, chat, chatSeq, now, issued, loopVars>>

\* await this.run('DELETE FROM task_links WHERE parent_id = ?', [taskId])
SetRelationsDeleteChildren(p) ==
    /\ op[p].pc = "setTaskRelations:deleteChildren"
    /\ task_links' = {l \in task_links : KeptBy(l, op[p].id, "parent_id")}
    /\ op' = [op EXCEPT ![p] = RelNextChild(op[p], 1)]
    /\ UNCHANGED <<tasks, taskSeq, chat, chatSeq, lastRowid, now, issued, loopVars>>

\* await this.run('INSERT OR IGNORE ...', [taskId, childId])
SetRelationsInsertChild(p) ==
    /\ op[p].pc = "setTaskRelations:insertChild"
    /\ InsertOrIgnoreLink(op[p].id, op[p].children[1][op[p].i])
    /\ op' = [op EXCEPT ![p] = RelNextChild(op[p], op[p].i + 1)]
    /\ UNCHANGED <<tasks, taskSeq, chat, chatSeq, now, issued, loopVars>>

\* a statement of setTaskRelations fails: run() rejects and the call throws with
\* the statements before it applied
SetRelationsFails(p) ==
    /\ op[p].pc \in {"setTaskRelations:deleteParents", "setTaskRelations:insertParent",
                     "setTaskRelations:deleteChildren", "setTaskRelations:insertChild"}
    /\ op' = [op EXCEPT ![p] =
                 [pc |-> "threw", name |-> "setRelations", ret |-> PlainError("SQLITE_ERROR"),
                  id |-> op[p].id, parents |-> op[p].parents, children |-> op[p].children,
                  was |-> op[p].was, failedAt |-> op[p].pc, i |-> op[p].i]]
    /\ UNCHANGED <<storeVars, issued, loopVars>>

\* --------------------------------------- DatabaseService.getTaskWithRelations
GetBegin(p, id) ==
    op' = [op EXCEPT ![p] = [pc |-> "getTask:task", name |-> "get", id |-> id]]

\* const task = await this.get('SELECT * FROM tasks WHERE id = ?', [id])
GetTaskSelect(p) ==
    /\ op[p].pc = "getTask:task"
    /\ op' = [op EXCEPT ![p] =
                 IF op[p].id \in TaskIds
                 THEN [pc |-> "getTask:parents", name |-> "get", id |-> op[p].id,
                       task |-> TaskById(op[p].id)]
                 ELSE Threw("get", PlainError("Task not found"))]
    /\ UNCHANGED <<storeVars, issued, loopVars>>

\* SELECT t.id, t.code, t.title FROM tasks t INNER JOIN task_links l
\* ON t.id = l.parent_id WHERE l.child_id = ?
JoinedParents(id) ==
    {TaskRef(t) : t \in {x \in tasks : <<x.id, id>> \in LinkPairs(task_links)}}

\* ... ON t.id = l.child_id WHERE l.parent_id = ?
JoinedChildren(id) ==
    {TaskRef(t) : t \in {x \in tasks : <<id, x.id>> \in LinkPairs(task_links)}}

GetTaskParents(p) ==
    /\ op[p].pc = "getTask:parents"
    /\ op' = [op EXCEPT ![p] = [pc |-> "getTask:children", name |-> "get", id |-> op[p].id,
                                task |-> op[p].task, parents |-> JoinedParents(op[p].id)]]
    /\ UNCHANGED <<storeVars, issued, loopVars>>

GetTaskChildren(p) ==
    /\ op[p].pc = "getTask:children"
    /\ op' = [op EXCEPT ![p] =
                 Returned("get", [TaskRecord(op[p].task) EXCEPT
                                     !.parents = op[p].parents,
                                     !.children = JoinedChildren(op[p].id)])]
    /\ UNCHANGED <<storeVars, issued, loopVars>>

\* one awaited statement of setTaskRelations or getTaskWithRelations
RelationStep(p) ==
    \/ SetRelationsDeleteParents(p)
    \/ SetRelationsInsertParent(p)
    \/ SetRelationsDeleteChildren(p)
    \/ SetRelationsInsertChild(p)
    \/ GetTaskSelect(p)
    \/ GetTaskParents(p)
    \/ GetTaskChildren(p)

\* ------------------------------------------------------ TasksService.update
\* the fields of the payload that update reads
UpdateFields == {"type", "description", "status"}

\* the parse function update applies to a supplied field
ParsedField(payload, f) ==
    CASE f = "type" -> parseType(Some(payload[f]))
      [] f = "description" -> parseDescription(Some(payload[f]))
      [] f = "status" -> parseStatus(Some(payload[f]), None)

\* the first supplied field, in the order update parses them, that is rejected
FirstRejected(payload, supplied) ==
    IF "type" \in supplied /\ IsError(ParsedField(payload, "type")) THEN Some("type")
    ELSE IF "description" \in supplied /\ IsError(ParsedField(payload, "description"))
    THEN Some("description")
    ELSE IF "status" \in supplied /\ IsError(ParsedField(payload, "status"))
    THEN Some("status")
    ELSE None

\* an update that drops the rejected fields and applies the others
ValidateUpdateLenient(payload) ==
    LET supplied == {f \in UpdateFields : f \in DOMAIN payload}
        accepted == {f \in supplied : ~IsError(ParsedField(payload, f))}
    IN  IF accepted = {} THEN BadRequest("Nothing to update")
        ELSE [f \in accepted |-> ParsedField(payload, f).value]

\* TasksService.update up to its call of databaseService.updateTask: the
\* updates object (the supplied fields, parsed), or the exception thrown
ValidateUpdate(payload) ==
    LET supplied == {f \in UpdateFields : f \in DOMAIN payload}
        rejected == FirstRejected(payload, supplied)
    IN  IF rejected # None THEN ParsedField(payload, rejected[1])
        ELSE IF supplied = {} THEN BadRequest("Nothing to update")
        ELSE [f \in supplied |-> ParsedField(payload, f).value]

\* a catch that rethrows every store error as it is
UpdateErrorRethrown(err) == err

\* catch (err): 'Task not found' becomes a NotFoundException, others are rethrown
UpdateError(err) ==
    IF err.message = "Task not found" THEN NotFound("Task not found") ELSE err

\* ------------------------------------------------- DatabaseService.updateTask
\* if (updates.f): the value is a non-empty string
Truthy(f, v) == IF f \in {"title", "description"} THEN v # <<>> ELSE v # ""

\* sets: the columns the UPDATE statement assigns
SetColumns(updates) == {f \in DOMAIN updates : Truthy(f, updates[f])}

\* an UPDATE that also assigns created_at
UpdatedRowStamped(row, updates) ==
    [f \in DOMAIN row |->
        IF f \in SetColumns(updates) THEN updates[f]
        ELSE IF f = "created_at" THEN now
        ELSE row[f]]

\* the row after UPDATE tasks SET <sets> WHERE id = ?
UpdatedRow(row, updates) ==
    [f \in DOMAIN row |-> IF f \in SetColumns(updates) THEN updates[f] ELSE row[f]]

\* CHECK (type IN ...), CHECK (status IN ...) of table tasks
ChecksHold(row) ==
    /\ row.type \in {"epic", "task", "subtask"}
    /\ row.status \in {"backlog", "in_progress", "done"}

\* the frame of an update call; payload: the body of the request, before: the
\* row the UPDATE statement found, if any
UpdateFrame(pc, f, before) ==
    [pc |-> pc, name |-> "update", id |-> f.id, payload |-> f.payload,
     updates |-> f.updates, before |-> before]

UpdateThrew(f, err) ==
    [pc |-> "threw", name |-> "update", ret |-> err, id |-> f.id, payload |-> f.payload]

\* TasksService.update(id, payload), then updateTask up to its first statement
UpdateBegin(p, id, payload) ==
    LET v == ValidateUpdate(payload)
        f == [id |-> id, payload |-> payload, updates |-> v]
    IN  op' = [op EXCEPT ![p] =
                  IF IsError(v) THEN UpdateThrew(f, v)
                  ELSE IF SetColumns(v) = {}
                  THEN UpdateThrew(f, UpdateError(PlainError("No fields to update")))
                  ELSE UpdateFrame("updateTask:update", f, None)]

\* await this.run(`UPDATE tasks SET ${sets.join(', ')} WHERE id = ?`, params)
UpdateTaskRun(p) ==
    /\ op[p].pc = "updateTask:update"
    /\ IF op[p].id \in TaskIds
       THEN LET old == TaskById(op[p].id)
                new == UpdatedRow(old, op[p].updates)
            IN  IF ChecksHold(new)
                THEN /\ tasks' = (tasks \ {old}) \cup {new}
                     /\ op' = [op EXCEPT ![p] =
                                   UpdateFrame("updateTask:read", op[p], Some(old))]
                ELSE /\ op' = [op EXCEPT ![p] =
                                   UpdateThrew(op[p], UpdateError(PlainError("SQLITE_CONSTRAINT")))]
                     /\ UNCHANGED tasks
       ELSE /\ op' = [op EXCEPT ![p] = UpdateFrame("updateTask:read", op[p], None)]
            /\ UNCHANGED tasks
    /\ UNCHANGED <<taskSeq, task_links, chat, chatSeq, lastRowid, now, issued, loopVars>>

\* const row = await this.get('SELECT * FROM tasks WHERE id = ?', [id])
UpdateTaskReadBack(p) ==
    /\ op[p].pc = "updateTask:read"
    /\ op' = [op EXCEPT ![p] =
                 IF op[p].id \in TaskIds
                 THEN UpdateFrame("returned", op[p], op[p].before)
                          @@ [ret |-> TaskRecord(TaskById(op[p].id))]
                 ELSE UpdateThrew(op[p], UpdateError(PlainError("Task not found")))]
    /\ UNCHANGED <<storeVars, issued, loopVars>>

\* ------------------------------------------------------------ store steps
\* one awaited statement of the store operation request p is in
StoreStep(p) ==
    \/ CreateTaskSelectNext(p)
    \/ CreateTaskInsert(p)
    \/ CreateTaskReadBack(p)
    \/ DeleteTaskSelect(p)
    \/ DeleteTaskLinks(p)
    \/ DeleteTaskRow(p)
    \/ ListTasksRows(p)
    \/ ListTasksLinks(p)

\* one awaited statement of the store operation a tool's func started through
\* TasksService; the read-back of createTask is never reached from there, as
\* the INSERT of a task object without title fails
ToolStoreStep ==
    \/ CreateTaskSelectNext(Agent)
    \/ CreateTaskInsert(Agent)
    \/ UpdateTaskRun(Agent)
    \/ UpdateTaskReadBack(Agent)
    \/ ListTasksRows(Agent)
    \/ ListTasksLinks(Agent)

\* ------------------------------------------------------- client requests
Txt(ch) == <<ch>>

\* bodies of POST /tasks used by the store specifications
ClientCreatePayloads ==
    {[type |-> "task", title |-> Txt("T"), description |-> Txt("D")],
     [type |-> "epic", title |-> Txt("T"), description |-> <<" ", "D", "\r">>, status |-> "done"],
     [type |-> "bug", title |-> Txt("T"), description |-> Txt("D")],
     [type |-> "task", title |-> Txt("T"), description |-> Txt("U+00A0"), status |-> ""],
     [type |-> "subtask", title |-> Txt(" "), description |-> Txt("D")],
     [type |-> "subtask", title |-> Txt("T"), description |-> Txt("D"), parentIds |-> <<1>>]}

\* task objects a caller of DatabaseService.createTask passes
CreateTaskInputs ==
    {[type |-> "task", title |-> Txt("T"), description |-> Txt("D"), status |-> "backlog"],
     [type |-> "epic", title |-> Txt("T"), description |-> Txt("D"), status |-> "done"]}

\* the createTask calls in flight whose INSERT will add a row
CreatesInFlight ==
    Cardinality({p \in Procs : /\ op[p].pc \in {"createTask:next", "createTask:insert"}
                               /\ BindsNoNull(op[p].task)})

\* POST /tasks -> TasksController.create -> TasksService.create
ClientCreate(p) ==
    /\ op[p].pc = "idle"
    /\ \E payload \in ClientCreatePayloads : CreateBegin(p, payload)
    /\ UNCHANGED <<storeVars, issued, loopVars>>

\* DatabaseService.createTask called with a complete task object
ClientCreateTask(p) ==
    /\ op[p].pc = "idle"
    /\ taskSeq + CreatesInFlight < MaxTasks
    /\ \E task \in CreateTaskInputs : CreateTaskBegin(p, task)
    /\ UNCHANGED <<storeVars, issued, loopVars>>

\* DatabaseService.deleteTask called with any id
ClientDelete(p) ==
    /\ op[p].pc = "idle"
    /\ \E id \in 1..MaxTasks : DeleteBegin(p, id)
    /\ UNCHANGED <<storeVars, issued, loopVars>>

\* the response of the request has been sent; the client may send another
ClientDone(p) ==
    /\ Finished(p)
    /\ op' = [op EXCEPT ![p] = Idle]
    /\ UNCHANGED <<storeVars, issued, loopVars>>

\* GET /tasks -> TasksService.list -> DatabaseService.listTasks
ClientList(p) ==
    /\ op[p].pc = "idle"
    /\ ListBegin(p, None)
    /\ UNCHANGED <<storeVars, issued, loopVars>>

\* one caller of the store: createTask, deleteTask and listTasks called
\* directly, and create through TasksService
ClientNext(p) ==
    \/ ClientCreate(p)
    \/ ClientCreateTask(p)
    \/ ClientDelete(p)
    \/ ClientList(p)
    \/ StoreStep(p)
    \/ ClientDone(p)

\* a caller of DatabaseService: createTask, deleteTask and listTasks
StoreClientNext(p) ==
    \/ ClientCreateTask(p)
    \/ ClientDelete(p)
    \/ ClientList(p)
    \/ StoreStep(p)
    \/ ClientDone(p)

\* ---------------------------------------------------------- tool registry
\* the names of this.taskTools
ToolNames ==
    {"list_tasks", "create_task", "update_task", "delete_task", "vector_add_document",
     "vector_search", "vector_get", "vector_update", "vector_delete"}

\* z.enum([...]) of the status labels (Russian in the source, transliterated)
statusEnum ==
    {"Otkryta", "Trebuet utochneniya", "Gotova k prodolzheniyu", "Dekompozirovana",
     "Vypolnena"}

typeEnum == {"epic", "task", "subtask"}

\* z.number().int().positive()
PositiveInt(n) == n \in Nat /\ n > 0

\* idArray.optional()
idArrayOptional(args, f) ==
    f \in DOMAIN args => \A i \in 1..Len(args[f]) : PositiveInt(args[f][i])

listTasksSchema(args) == "status" \in DOMAIN args => args.status \in statusEnum

createTaskSchema(args) ==
    /\ "type" \in DOMAIN args /\ args.type \in typeEnum
    /\ "title" \in DOMAIN args /\ Len(args.title) >= 1
    /\ "description" \in DOMAIN args /\ Len(args.description) >= 1
    /\ "status" \in DOMAIN args => args.status \in statusEnum
    /\ idArrayOptional(args, "parentIds")
    /\ idArrayOptional(args, "childIds")

updateTaskSchema(args) ==
    /\ "id" \in DOMAIN args /\ PositiveInt(args.id)
    /\ "type" \in DOMAIN args => args.type \in typeEnum
    /\ "title" \in DOMAIN args => Len(args.title) >= 1
    /\ "description" \in DOMAIN args => Len(args.description) >= 1
    /\ "status" \in DOMAIN args => args.status \in statusEnum
    /\ idArrayOptional(args, "parentIds")
    /\ idArrayOptional(args, "childIds")

deleteTaskSchema(args) == "id" \in DOMAIN args /\ PositiveInt(args.id)

\* content: z.string().min(1), id: z.string().min(1).optional()
addVectorSchema(args) ==
    /\ "content" \in DOMAIN args /\ Len(args.content) >= 1
    /\ "id" \in DOMAIN args => Len(args.id) >= 1

\* query: z.string().min(1), limit: z.number().int().min(1).max(10).optional()
searchVectorSchema(args) ==
    /\ "query" \in DOMAIN args /\ Len(args.query) >= 1
    /\ "limit" \in DOMAIN args => args.limit \in 1..10

\* id: z.string().min(1), the schema of vector_get and of vector_delete
getVectorSchema(args) == "id" \in DOMAIN args /\ Len(args.id) >= 1

\* id: z.string().min(1), content: z.string().min(1).optional()
updateVectorSchema(args) ==
    /\ "id" \in DOMAIN args /\ Len(args.id) >= 1
    /\ "content" \in DOMAIN args => Len(args.content) >= 1

\* mutant of SchemaValid: func runs on unvalidated arguments
SchemaUnchecked(name, args) == TRUE

\* the input schema of the tool, checked by tool.invoke before func runs
SchemaValid(name, args) ==
    CASE name = "list_tasks" -> listTasksSchema(args)
      [] name = "create_task" -> createTaskSchema(args)
      [] name = "update_task" -> updateTaskSchema(args)
      [] name = "delete_task" -> deleteTaskSchema(args)
      [] name = "vector_add_document" -> addVectorSchema(args)
      [] name = "vector_search" -> searchVectorSchema(args)
      [] name \in {"vector_get", "vector_delete"} -> getVectorSchema(args)
      [] name = "vector_update" -> updateVectorSchema(args)

\* mutant of FindTool: an unknown name falls back to the first registered tool
FindToolOrFirst(name) == IF name \in ToolNames THEN Some(name) ELSE Some("list_tasks")

\* this.taskTools.find((item) => item.name === call.name): the tool, or undefined
FindTool(name) == IF name \in ToolNames THEN Some(name) ELSE None

\* formatTask(task)
formatTask(task) ==
    [code |-> task.code, type |-> task.type, status |-> task.status,
     title |-> task.title, description |-> task.description,
     parents |-> {[code |-> r.code, title |-> r.title] : r \in task.parents},
     children |-> {[code |-> r.code, title |-> r.title] : r \in task.children}]

\* the string the tool's func returns; the func of delete_task and of the
\* vector tools other than vector_search never gets to its return
ToolResult(frame) ==
    CASE frame.name = "create" -> [kind |-> "Created task", task |-> formatTask(frame.ret)]
      [] frame.name = "update" ->
            [kind |-> "Updated task", id |-> frame.id, task |-> formatTask(frame.ret)]
      [] frame.name = "list" ->
            LET filtered == IF FalsyString(frame.filter) THEN frame.ret
                            ELSE {t \in frame.ret : t.status = frame.filter[1]}
            IN  IF filtered = {} THEN [kind |-> "No tasks found for the given filter."]
                ELSE [kind |-> "list", tasks |-> {formatTask(t) : t \in filtered}]
      [] frame.name = "vector_search" ->
            IF frame.ret = <<>> THEN [kind |-> "No similar documents found."]
            ELSE [kind |-> "results", results |-> frame.ret]

\* the TypeError of a call of a method the object does not have
TypeError(msg) == [error |-> "TypeError", message |-> msg]

\* the tools whose func calls a method that neither TasksService (list,
\* create, update) nor VectorStoreService (indexConversation, similaritySearch)
\* declares, and the message of the TypeError the call throws
NotAFunction(tool) ==
    CASE tool = "delete_task" -> "this.tasksService.delete is not a function"
      [] tool = "vector_add_document" ->
            "this.vectorStoreService.addDocument is not a function"
      [] tool = "vector_get" -> "this.vectorStoreService.getDocument is not a function"
      [] tool = "vector_update" ->
            "this.vectorStoreService.updateDocument is not a function"
      [] tool = "vector_delete" ->
            "this.vectorStoreService.deleteDocument is not a function"

\* what store.similaritySearchWithScore may answer before the cut to the limit
SearchHits ==
    {<<>>,
     <<[content |-> Txt("D"), score |-> 1], [content |-> Txt("T"), score |-> 2]>>}

\* Math.min(Math.max(limit, 1), 10)
ClampLimit(limit) == IF limit < 1 THEN 1 ELSE IF limit > 10 THEN 10 ELSE limit

\* VectorStoreService.similaritySearch(query, limit): the results it may
\* resolve to; [] when the integration is disabled, the query is blank or
\* the Chroma call fails
similaritySearch(query, limit) ==
    IF Trim(query) = <<>> THEN {<<>>}
    ELSE {<<>>} \cup {SubSeq(hits, 1, IF Len(hits) < ClampLimit(limit) THEN Len(hits)
                                      ELSE ClampLimit(limit)) : hits \in SearchHits}

\* ------------------------------------------------------------- messages
SystemMessage == [role |-> "system"]

HumanMessage(text) == [role |-> "human", content |-> text]

AIMessage(r) == [role |-> "ai", content |-> r.content, tool_calls |-> r.tool_calls]

ToolMessage(content, id) == [role |-> "tool", content |-> content, tool_call_id |-> id]

\* `Tool ${call.name} is not available`
UnavailableContent(call) == [kind |-> "is not available", name |-> call.name]

\* `Tool error: ${err.message}`
ToolErrorContent(err) == [kind |-> "Tool error", message |-> err.message]

\* the exception tool.invoke throws when the arguments do not match the schema
ToolInputError ==
    [error |-> "ToolInputParsingException",
     message |-> "Received tool input did not match expected schema"]

\* mutant of ToolCallId: the id of the call is dropped
ToolCallIdDefault(call) == "tool-call"

\* const toolCallId = call.id ?? 'tool-call'
ToolCallId(call) == IF "id" \in DOMAIN call THEN call.id ELSE "tool-call"

\* mutant of HasToolCalls: every response is taken as the final answer
HasToolCallsNever(r) == FALSE

\* !response.tool_calls?.length is false
HasToolCalls(r) == Len(r.tool_calls) > 0

\* mutant of ContentText: a string content is serialised too
ContentTextStringifyAll(content) ==
    IF "str" \in DOMAIN content THEN [json |-> content.str] ELSE [json |-> content.parts]

\* typeof response.content === 'string' ? response.content : JSON.stringify(response.content)
ContentText(content) ==
    IF "str" \in DOMAIN content THEN content ELSE [json |-> content.parts]

\* mutant of MaxSteps: step <= 6
MaxStepsOffByOne == 6 + 1

\* the step bound of the for loop
MaxSteps == 6

\* getRecentMessages(10)
HistoryLimit == 10

Fallback == [str |-> "Could not complete the request with available tools."]

NoReply == [none |-> TRUE]

NoResponse == [content |-> [str |-> ""], tool_calls |-> <<>>]

Reverse(seq) == [i \in 1..Len(seq) |-> seq[Len(seq) + 1 - i]]

\* the rows of messages as a set
ChatRows == {chat[i] : i \in 1..Len(chat)}

\* the rows ORDER BY created_at DESC may deliver first: created_at has a
\* resolution of one second and rows of the same second have no defined order
Latest(rows) == {r \in rows : \A q \in rows : q.created_at <= r.created_at}

RECURSIVE DescOrders(_)
\* the sequences SELECT ... FROM messages ORDER BY created_at DESC may deliver
DescOrders(rows) ==
    IF rows = {} THEN {<<>>}
    ELSE UNION {{<<r>> \o rest : rest \in DescOrders(rows \ {r})} : r \in Latest(rows)}

\* getRecentMessages(limit): the results of ORDER BY created_at DESC LIMIT ?, reversed
getRecentMessages(limit) ==
    {Reverse(SubSeq(desc, 1, IF Len(desc) < limit THEN Len(desc) ELSE limit)) :
        desc \in DescOrders(ChatRows)}

RECURSIVE HistoryMessagesUserOnly(_)
\* mutant of HistoryMessages: only the user message of a turn is pushed
HistoryMessagesUserOnly(recent) ==
    IF recent = <<>> THEN <<>>
    ELSE <<HumanMessage(Head(recent).user_text)>> \o HistoryMessagesUserOnly(Tail(recent))

RECURSIVE HistoryMessages(_)
\* recent.forEach: HumanMessage(userText), AIMessage(botReply) per turn
HistoryMessages(recent) ==
    IF recent = <<>> THEN <<>>
    ELSE <<HumanMessage(Head(recent).user_text),
           [role |-> "ai", content |-> Head(recent).bot_reply, tool_calls |-> <<>>]>>
         \o HistoryMessages(Tail(recent))

\* ------------------------------------------------------------ model stub
CallUnknown == [id |-> "call_u", name |-> "archive_task", args |-> [id |-> 1]]

CallCreate ==
    [id |-> "call_c", name |-> "create_task",
     args |-> [type |-> "task", title |-> Txt("T"), description |-> Txt("D")]]

\* title: z.string().min(1) is violated
CallCreateNoTitle ==
    [id |-> "call_s", name |-> "create_task",
     args |-> [type |-> "task", title |-> <<>>, description |-> Txt("D")]]

CallDelete == [id |-> "call_d", name |-> "delete_task", args |-> [id |-> 1]]

CallUpdate ==
    [id |-> "call_p", name |-> "update_task",
     args |-> [id |-> 1, type |-> "epic", title |-> Txt("N")]]

CallSearch ==
    [id |-> "call_v", name |-> "vector_search", args |-> [query |-> Txt("D"), limit |-> 1]]

CallVectorGet == [id |-> "call_g", name |-> "vector_get", args |-> [id |-> Txt("7")]]

\* a call without an id
CallList == [name |-> "list_tasks", args |-> [x \in {} |-> 0]]

\* the tool_calls lists the stub answers with
ToolCallLists ==
    {<<CallUnknown, CallCreate>>,
     <<CallDelete, CallUpdate, CallList>>,
     <<CallCreateNoTitle, CallSearch>>,
     <<CallVectorGet>>}

\* what toolModel.invoke may resolve to
ModelResponses ==
    {[content |-> [str |-> "What is the goal?"], tool_calls |-> <<>>],
     [content |-> [parts |-> <<"What is the goal?">>], tool_calls |-> <<>>]}
    \cup {[content |-> [str |-> ""], tool_calls |-> calls] : calls \in ToolCallLists}

\* @Body('text') of POST /messages
UserTexts == {None, Some(<<" ", "\r">>), Some(<<"h", "i">>)}

\* ----------------------------------------------- MessagesService.sendMessage
SendMessage ==
    /\ lpc = "idle"
    /\ \E text \in UserTexts :
          LET userText == IF text = None THEN <<>> ELSE text[1]
          IN  /\ input' = userText
              /\ IF Trim(userText) = <<>>
                 THEN lpc' = "rejected" /\ UNCHANGED messages
                 ELSE lpc' = "history" /\ messages' = <<SystemMessage>>
    /\ UNCHANGED <<storeVars, op, issued, step, response, idx, reply, saved,
                   invocations, toolLog>>

\* const history = await this.loadRecentHistory(); messages.push(...history, new HumanMessage(input))
LoadRecentHistory ==
    /\ lpc = "history"
    /\ \E recent \in getRecentMessages(HistoryLimit) :
          messages' = messages \o HistoryMessages(recent) \o <<HumanMessage(input)>>
    /\ step' = 0
    /\ lpc' = "model"
    /\ UNCHANGED <<storeVars, op, issued, input, response, idx, reply, saved,
                   invocations, toolLog>>

\* a loadRecentHistory whose catch rethrows: the request ends with the error
AfterHistoryErrorRethrown == "failed"

\* catch (err) { this.logger.warn(...); return [] }: the loop goes on
AfterHistoryError == "model"

\* getRecentMessages rejects: the catch of loadRecentHistory returns []
LoadRecentHistoryFails ==
    /\ lpc = "history"
    /\ messages' = messages \o <<HumanMessage(input)>>
    /\ step' = 0
    /\ lpc' = AfterHistoryError
    /\ UNCHANGED <<storeVars, op, issued, input, response, idx, reply, saved,
                   invocations, toolLog>>

\* const response = await toolModel.invoke(messages); messages.push(response);
\* if (!response.tool_calls?.length) return content
ModelResponds ==
    /\ lpc = "model"
    /\ step < MaxSteps
    /\ \E r \in ModelResponses :
          /\ response' = r
          /\ messages' = Append(messages, AIMessage(r))
          /\ IF HasToolCalls(r)
             THEN lpc' = "tools" /\ idx' = 1 /\ UNCHANGED reply
             ELSE lpc' = "save:insert" /\ idx' = 0 /\ reply' = ContentText(r.content)
    /\ invocations' = invocations + 1
    /\ UNCHANGED <<storeVars, op, issued, input, step, saved, toolLog>>

\* mutant of AfterModelError: the invocation is tried again
AfterModelErrorRetry == "model"

\* toolModel.invoke is awaited without a catch, in generateTaskAwareReply and in
\* sendMessage: the request ends with the error
AfterModelError == "failed"

\* toolModel.invoke rejects
ModelFails ==
    /\ lpc = "model"
    /\ step < MaxSteps
    /\ invocations' = invocations + 1
    /\ lpc' = AfterModelError
    /\ UNCHANGED <<storeVars, op, issued, input, messages, step, response, idx, reply,
                   saved, toolLog>>

\* mutant of CallAt: the calls are taken from the end of the list
CallAtReversed(calls, i) == calls[Len(calls) + 1 - i]

\* mutant of CatchesToolError: only schema violations are caught
CatchesInputErrorOnly(err) == err.error = "ToolInputParsingException"

\* the call the for-of over response.tool_calls visits at position i
CallAt(calls, i) == calls[i]

\* catch (err) around tool.invoke: every exception is caught
CatchesToolError(err) == TRUE

\* messages.push(msg), then the next call of the for-of, or the next step of
\* the for loop, or the return after the loop
PushAndContinue(msg) ==
    /\ messages' = Append(messages, msg)
    /\ IF idx < Len(response.tool_calls)
       THEN /\ idx' = idx + 1
            /\ lpc' = "tools"
            /\ UNCHANGED <<step, reply>>
       ELSE /\ idx' = 0
            /\ step' = step + 1
            /\ IF step + 1 < MaxSteps
               THEN lpc' = "model" /\ UNCHANGED reply
               ELSE lpc' = "save:insert" /\ reply' = Fallback

\* func of the tool up to its first awaited store statement
HandlerBegin(tool, args) ==
    CASE tool = "create_task" -> CreateBegin(Agent, args)
      [] tool = "update_task" ->
            UpdateBegin(Agent, args.id, [f \in DOMAIN args \ {"id"} |-> args[f]])
      [] tool = "list_tasks" -> ListBegin(Agent, Field(args, "status"))
      [] tool = "vector_search" ->
            \E results \in similaritySearch(args.query,
                                           IF "limit" \in DOMAIN args THEN args.limit ELSE 3) :
                op' = [op EXCEPT ![Agent] = Returned("vector_search", results)]
      [] tool \in {"delete_task", "vector_add_document", "vector_get", "vector_update",
                   "vector_delete"} ->
            op' = [op EXCEPT ![Agent] = Threw(tool, TypeError(NotAFunction(tool)))]

\* position in messages of the response whose calls are being executed
ResponseAt == Len(messages) - (idx - 1)

LogEntry(event) == [step |-> step, idx |-> idx, at |-> ResponseAt, event |-> event]

\* an exception of tool.invoke that the catch does not take leaves the loop
ToolErrorEscapes ==
    /\ lpc' = "failed"
    /\ UNCHANGED <<messages, step, idx, reply>>

\* one iteration of for (const call of response.tool_calls) up to the await
\* of tool.invoke(call.args)
ToolDispatch ==
    /\ lpc = "tools"
    /\ LET call == CallAt(response.tool_calls, idx)
           tool == FindTool(call.name)
       IN  IF tool = None
           THEN /\ PushAndContinue(ToolMessage(UnavailableContent(call), ToolCallId(call)))
                /\ UNCHANGED <<op, toolLog>>
           ELSE IF ~SchemaValid(tool[1], call.args)
           THEN /\ IF CatchesToolError(ToolInputError)
                   THEN PushAndContinue(ToolMessage(ToolErrorContent(ToolInputError),
                                                    ToolCallId(call)))
                   ELSE ToolErrorEscapes
                /\ UNCHANGED <<op, toolLog>>
           ELSE /\ HandlerBegin(tool[1], call.args)
                /\ lpc' = "handler"
                /\ toolLog' = Append(toolLog, LogEntry("start"))
                /\ UNCHANGED <<messages, step, idx, reply>>
    /\ UNCHANGED <<storeVars, issued, input, response, saved, invocations>>

\* tool.invoke settles: the result, or the caught error, becomes a ToolMessage
ToolReturn ==
    /\ lpc = "handler"
    /\ Finished(Agent)
    /\ LET call == CallAt(response.tool_calls, idx)
       IN  IF op[Agent].pc = "threw"
           THEN LET err == op[Agent].ret
                IN  IF CatchesToolError(err)
                    THEN PushAndContinue(ToolMessage(ToolErrorContent(err), ToolCallId(call)))
                    ELSE ToolErrorEscapes
           ELSE PushAndContinue(ToolMessage(ToolResult(op[Agent]), ToolCallId(call)))
    /\ op' = [op EXCEPT ![Agent] = Idle]
    /\ toolLog' = Append(toolLog, LogEntry(op[Agent].pc))
    /\ UNCHANGED <<storeVars, issued, input, response, saved, invocations>>

\* mutant of SaveMessageInsert: INSERT OR REPLACE on the id of the latest turn
SaveMessageInsertReplacing ==
    /\ lpc = "save:insert"
    /\ chat' = IF chat = <<>>
               THEN <<[id |-> 1, user_text |-> input, bot_reply |-> reply, created_at |-> now]>>
               ELSE [chat EXCEPT ![Len(chat)] =
                        [id |-> chatSeq, user_text |-> input, bot_reply |-> reply,
                         created_at |-> now]]
    /\ chatSeq' = IF chat = <<>> THEN 1 ELSE chatSeq
    /\ lastRowid' = chatSeq'
    /\ lpc' = "save:read"
    /\ UNCHANGED <<tasks, taskSeq, task_links, now, op, issued, input, messages, step,
                   response, idx, reply, saved, invocations, toolLog>>

\* saveMessage: await this.run(INSERT INTO messages (user_text, bot_reply) ...)
SaveMessageInsert ==
    /\ lpc = "save:insert"
    /\ chat' = Append(chat, [id |-> chatSeq + 1, user_text |-> input, bot_reply |-> reply,
                             created_at |-> now])
    /\ chatSeq' = chatSeq + 1
    /\ lastRowid' = chatSeq + 1
    /\ lpc' = "save:read"
    /\ UNCHANGED <<tasks, taskSeq, task_links, now, op, issued, input, messages, step,
                   response, idx, reply, saved, invocations, toolLog>>

\* saveMessage: await this.get(SELECT ... FROM messages WHERE id = last_insert_rowid())
SaveMessageReadBack ==
    /\ lpc = "save:read"
    /\ LET rows == {i \in 1..Len(chat) : chat[i].id = lastRowid}
       IN  IF rows # {}
           THEN LET row == chat[CHOOSE i \in rows : TRUE]
                IN  /\ saved' = [id |-> row.id, userText |-> row.user_text,
                                 botReply |-> row.bot_reply]
                    /\ lpc' = "done"
           ELSE /\ lpc' = "save_failed"
                /\ UNCHANGED saved
    /\ UNCHANGED <<storeVars, op, issued, input, messages, step, response, idx, reply,
                   invocations, toolLog>>

\* ---------------------------------------------- requests on the relations
\* the parents and children arguments used by the relation specifications
RelParentLists == {None, Some(<<>>), Some(<<2>>), Some(<<1, 3>>), Some(<<2, 2>>)}

RelChildLists == {None, Some(<<3, 1>>)}

RelIds == {1, 2, 3}

\* the number of ids an optional list holds
ListLen(list) == IF list = None THEN 0 ELSE Len(list[1])

\* the rowids of task_links stay within MaxLinkRowid plus the inserts in flight
RowidsLeft(parents, children) ==
    NextLinkRowid - 1 + ListLen(parents) + ListLen(children) <= MaxLinkRowid

\* the ids an optional list names
ListIds(list) == IF list = None THEN {} ELSE {list[1][i] : i \in 1..Len(list[1])}

\* DatabaseService.setTaskRelations with any task id and any lists
ClientSetRelations(p) ==
    /\ op[p].pc = "idle"
    /\ \E id \in RelIds, parents \in RelParentLists, children \in RelChildLists :
          /\ RowidsLeft(parents, children)
          /\ SetRelationsBegin(p, id, parents, children)
    /\ UNCHANGED <<storeVars, issued, loopVars>>

\* a second setTaskRelations for the same task right after the first returned
ClientSetRelationsAgain(p) ==
    /\ op[p].pc = "returned" /\ op[p].name = "setRelations"
    /\ \E parents \in RelParentLists, children \in RelChildLists :
          /\ RowidsLeft(parents, children)
          /\ SetRelationsBegin(p, op[p].ret.id, parents, children)
    /\ UNCHANGED <<storeVars, issued, loopVars>>

\* DatabaseService.setTaskRelations by a caller that looked the ids up first:
\* the task and every id named exist when the call starts
ClientSetRelationsKnown(p) ==
    /\ op[p].pc = "idle"
    /\ \E id \in TaskIds, parents \in {Some(<<2>>), Some(<<1, 3>>)},
          children \in RelChildLists :
          /\ ListIds(parents) \cup ListIds(children) \subseteq TaskIds
          /\ SetRelationsBegin(p, id, parents, children)
    /\ UNCHANGED <<storeVars, issued, loopVars>>

\* DatabaseService.getTaskWithRelations
ClientGet(p) ==
    /\ op[p].pc = "idle"
    /\ \E id \in RelIds : GetBegin(p, id)
    /\ UNCHANGED <<storeVars, issued, loopVars>>

\* DatabaseService.createTask called with one task object
ClientCreateValid(p) ==
    /\ op[p].pc = "idle"
    /\ taskSeq + CreatesInFlight < MaxTasks
    /\ CreateTaskBegin(p, [type |-> "task", title |-> Txt("T"), description |-> Txt("D"),
                           status |-> "backlog"])
    /\ UNCHANGED <<storeVars, issued, loopVars>>

\* bodies of PATCH /tasks/:id
UpdatePayloads ==
    {[status |-> "done"],
     [type |-> "epic", description |-> <<" ", "N", " ">>],
     [title |-> Txt("N")],
     [title |-> Txt("N"), status |-> "in_progress"],
     [type |-> "bug", status |-> "done"],
     [description |-> Txt(" ")],
     [status |-> "archived"],
     <<>>}

\* PATCH /tasks/:id -> TasksService.update
ClientUpdate(p) ==
    /\ op[p].pc = "idle"
    /\ \E id \in RelIds, payload \in UpdatePayloads : UpdateBegin(p, id, payload)
    /\ UNCHANGED <<storeVars, issued, loopVars>>

\* a second passes on the clock of the database host
Tick ==
    /\ now < MaxClock
    /\ now' = now + 1
    /\ UNCHANGED <<tasks, taskSeq, task_links, chat, chatSeq, lastRowid, op, issued, loopVars>>

vars == <<storeVars, op, issued, loopVars>>

\* the state after onModuleInit on a fresh database file, no request running
Init ==
    /\ tasks = {}
    /\ taskSeq = 0
    /\ task_links = {}
    /\ chat = <<>>
    /\ chatSeq = 0
    /\ lastRowid = 0
    /\ now = 0
    /\ op = [p \in Procs |-> Idle]
    /\ issued = <<>>
    /\ lpc = "idle"
    /\ input = <<>>
    /\ messages = <<>>
    /\ step = 0
    /\ response = NoResponse
    /\ idx = 0
    /\ reply = NoReply
    /\ saved = NoReply
    /\ invocations = 0
    /\ toolLog = <<>>

\* one client: its requests run one after the other
SeqNext == \E p \in {"c1"} : ClientNext(p)

SpecSeq == Init /\ [][SeqNext]_vars

\* two clients: their awaited statements interleave
ConcNext == \E p \in Clients : StoreClientNext(p)

SpecConc == Init /\ [][ConcNext]_vars

\* a store that holds two tasks and no link
RelInitialTasks ==
    {[id |-> n, type |-> "task", title |-> Txt("T"), description |-> Txt("D"),
      status |-> "backlog", code |-> FormatCode(n), created_at |-> 0] : n \in 1..2}

InitRel ==
    /\ tasks = RelInitialTasks
    /\ taskSeq = 2
    /\ task_links = {}
    /\ chat = <<>>
    /\ chatSeq = 0
    /\ lastRowid = 2
    /\ now = 0
    /\ op = [p \in Procs |-> Idle]
    /\ issued = <<FormatCode(1), FormatCode(2)>>
    /\ lpc = "idle"
    /\ input = <<>>
    /\ messages = <<>>
    /\ step = 0
    /\ response = NoResponse
    /\ idx = 0
    /\ reply = NoReply
    /\ saved = NoReply
    /\ invocations = 0
    /\ toolLog = <<>>

\* one caller of the store: create, delete, relations, reads, one after the other
RelClientNext(p) ==
    \/ ClientCreateValid(p)
    \/ ClientDelete(p)
    \/ ClientSetRelations(p)
    \/ ClientSetRelationsAgain(p)
    \/ ClientGet(p)
    \/ ClientList(p)
    \/ StoreStep(p)
    \/ RelationStep(p)
    \/ ClientDone(p)

RelNext == \E p \in {"c1"} : RelClientNext(p)

SpecRel == InitRel /\ [][RelNext]_vars

\* tables of links that earlier setTaskRelations calls left
RelConcInitialLinks ==
    {{},
     {[rowid |-> 1, parent_id |-> 2, child_id |-> 1]},
     {[rowid |-> 1, parent_id |-> 3, child_id |-> 2],
      [rowid |-> 2, parent_id |-> 2, child_id |-> 1]}}

\* a store that holds three tasks and the links of earlier calls
InitRelConc ==
    /\ tasks = RelInitialTasks \cup
                   {[id |-> 3, type |-> "epic", title |-> Txt("T"), description |-> Txt("D"),
                     status |-> "backlog", code |-> FormatCode(3), created_at |-> 0]}
    /\ taskSeq = 3
    /\ task_links \in RelConcInitialLinks
    /\ chat = <<>>
    /\ chatSeq = 0
    /\ lastRowid = 3
    /\ now = 0
    /\ op = [p \in Procs |-> Idle]
    /\ issued = <<FormatCode(1), FormatCode(2), FormatCode(3)>>
    /\ lpc = "idle"
    /\ input = <<>>
    /\ messages = <<>>
    /\ step = 0
    /\ response = NoResponse
    /\ idx = 0
    /\ reply = NoReply
    /\ saved = NoReply
    /\ invocations = 0
    /\ toolLog = <<>>

\* two callers, one call each, whose relation and delete statements interleave
RelConcClientNext(p) ==
    \/ ClientDelete(p)
    \/ ClientSetRelationsKnown(p)
    \/ DeleteTaskSelect(p)
    \/ DeleteTaskLinks(p)
    \/ DeleteTaskRow(p)
    \/ SetRelationsDeleteParents(p)
    \/ SetRelationsInsertParent(p)
    \/ SetRelationsDeleteChildren(p)
    \/ SetRelationsInsertChild(p)

RelConcNext == \E p \in Clients : RelConcClientNext(p)

SpecRelConc == InitRelConc /\ [][RelConcNext]_vars

\* one caller; any statement of deleteTask may fail
FailClientNext(p) ==
    \/ ClientSetRelations(p)
    \/ ClientDelete(p)
    \/ SetRelationsDeleteParents(p)
    \/ SetRelationsInsertParent(p)
    \/ SetRelationsDeleteChildren(p)
    \/ SetRelationsInsertChild(p)
    \/ DeleteTaskSelect(p)
    \/ DeleteTaskLinks(p)
    \/ DeleteTaskRow(p)
    \/ DeleteTaskSelectFails(p)
    \/ DeleteTaskLinksFails(p)
    \/ DeleteTaskRowFails(p)
    \/ ClientDone(p)

FailNext == \E p \in {"c1"} : FailClientNext(p)

SpecFail == InitRelConc /\ [][FailNext]_vars

\* one caller of setTaskRelations, call after call, on the tables earlier calls left
FrameClientNext(p) ==
    \/ ClientSetRelations(p)
    \/ ClientSetRelationsAgain(p)
    \/ SetRelationsDeleteParents(p)
    \/ SetRelationsInsertParent(p)
    \/ SetRelationsDeleteChildren(p)
    \/ SetRelationsInsertChild(p)
    \/ ClientDone(p)

FrameNext == \E p \in {"c1"} : FrameClientNext(p)

SpecFrame == InitRelConc /\ [][FrameNext]_vars

\* a store that holds two tasks and the link (2, 1)
InitUpd ==
    /\ tasks = RelInitialTasks
    /\ taskSeq = 2
    /\ task_links = {[rowid |-> 1, parent_id |-> 2, child_id |-> 1]}
    /\ chat = <<>>
    /\ chatSeq = 0
    /\ lastRowid = 2
    /\ now = 0
    /\ op = [p \in Procs |-> Idle]
    /\ issued = <<FormatCode(1), FormatCode(2)>>
    /\ lpc = "idle"
    /\ input = <<>>
    /\ messages = <<>>
    /\ step = 0
    /\ response = NoResponse
    /\ idx = 0
    /\ reply = NoReply
    /\ saved = NoReply
    /\ invocations = 0
    /\ toolLog = <<>>

\* one caller: updates, creates and deletes one after the other, while time passes
UpdClientNext(p) ==
    \/ ClientUpdate(p)
    \/ UpdateTaskRun(p)
    \/ UpdateTaskReadBack(p)
    \/ ClientCreate(p)
    \/ ClientCreateTask(p)
    \/ CreateTaskSelectNext(p)
    \/ CreateTaskInsert(p)
    \/ CreateTaskReadBack(p)
    \/ ClientDelete(p)
    \/ DeleteTaskSelect(p)
    \/ DeleteTaskLinks(p)
    \/ DeleteTaskRow(p)
    \/ ClientDone(p)

UpdNext == Tick \/ \E p \in {"c1"} : UpdClientNext(p)

SpecUpd == InitUpd /\ [][UpdNext]_vars

\* one writer (a setTaskRelations call whose statements may fail) and one
\* reader (a getTaskWithRelations or listTasks call) on the shared connection
WriterNext(p) ==
    \/ ClientSetRelationsKnown(p)
    \/ SetRelationsDeleteParents(p)
    \/ SetRelationsInsertParent(p)
    \/ SetRelationsDeleteChildren(p)
    \/ SetRelationsInsertChild(p)
    \/ SetRelationsFails(p)

ReaderNext(p) ==
    \/ ClientGet(p)
    \/ GetTaskSelect(p)
    \/ GetTaskParents(p)
    \/ GetTaskChildren(p)
    \/ ClientList(p)
    \/ ListTasksRows(p)
    \/ ListTasksLinks(p)

ReadNext == WriterNext("c1") \/ ReaderNext("c2")

SpecRead == InitRelConc /\ [][ReadNext]_vars

\* a store that holds one task and one saved turn
LoopInitialTasks ==
    {[id |-> 1, type |-> "task", title |-> Txt("T"), description |-> Txt("D"),
      status |-> "backlog", code |-> FormatCode(1), created_at |-> 0]}

LoopInitialChat ==
    <<[id |-> 1, user_text |-> <<"h", "i">>, bot_reply |-> [str |-> "What is the goal?"],
       created_at |-> 0]>>

InitLoop ==
    /\ tasks = LoopInitialTasks
    /\ taskSeq = 1
    /\ task_links = {}
    /\ chat = LoopInitialChat
    /\ chatSeq = 1
    /\ lastRowid = 1
    /\ now = 0
    /\ op = [p \in Procs |-> Idle]
    /\ issued = <<FormatCode(1)>>
    /\ lpc = "idle"
    /\ input = <<>>
    /\ messages = <<>>
    /\ step = 0
    /\ response = NoResponse
    /\ idx = 0
    /\ reply = NoReply
    /\ saved = NoReply
    /\ invocations = 0
    /\ toolLog = <<>>

\* one POST /messages against the stub model; the tools' store statements are
\* the only ones running
LoopNext ==
    \/ SendMessage
    \/ LoadRecentHistory
    \/ LoadRecentHistoryFails
    \/ ModelResponds
    \/ ModelFails
    \/ ToolDispatch
    \/ ToolStoreStep
    \/ ToolReturn
    \/ SaveMessageInsert
    \/ SaveMessageReadBack

SpecLoop == InitLoop /\ [][LoopNext]_vars

\* every awaited promise of the request settles: a step that can be taken is taken
SpecLoopFair == InitLoop /\ [][LoopNext]_vars /\ WF_vars(LoopNext)

\* the store of InitLoop, with one saved turn or with none
InitHist ==
    /\ tasks = LoopInitialTasks
    /\ taskSeq = 1
    /\ task_links = {}
    /\ chat \in {<<>>, LoopInitialChat}
    /\ chatSeq = Len(chat)
    /\ lastRowid = 1
    /\ now = 0
    /\ op = [p \in Procs |-> Idle]
    /\ issued = <<FormatCode(1)>>
    /\ lpc = "idle"
    /\ input = <<>>
    /\ messages = <<>>
    /\ step = 0
    /\ response = NoResponse
    /\ idx = 0
    /\ reply = NoReply
    /\ saved = NoReply
    /\ invocations = 0
    /\ toolLog = <<>>

SpecHist == InitHist /\ [][LoopNext]_vars

\* the texts of the other POST /messages requests
OtherTexts == {Txt("a"), Txt("b")}

\* saveMessage of another request, whose model answered in plain text:
\* INSERT INTO messages (user_text, bot_reply); its read-back changes nothing
OtherSaveMessage ==
    /\ chatSeq < MaxTurns
    /\ \E text \in OtherTexts :
          chat' = Append(chat, [id |-> chatSeq + 1, user_text |-> text,
                                bot_reply |-> [str |-> "What is the goal?"],
                                created_at |-> now])
    /\ chatSeq' = chatSeq + 1
    /\ lastRowid' = chatSeq + 1
    /\ UNCHANGED <<tasks, taskSeq, task_links, now, op, issued, loopVars>>

\* clearMessages of another request (DELETE /messages):
\* await this.run('DELETE FROM messages'); AUTOINCREMENT keeps the sequence
ClearMessages ==
    /\ chat # <<>>
    /\ chat' = <<>>
    /\ UNCHANGED <<tasks, taskSeq, task_links, chatSeq, lastRowid, now, op, issued, loopVars>>

\* createTask calls of two callers and the saveMessage of POST /messages
\* requests, all on the one connection of DatabaseService
SharedClientNext(p) ==
    \/ ClientCreateTask(p)
    \/ CreateTaskSelectNext(p)
    \/ CreateTaskInsert(p)
    \/ CreateTaskReadBack(p)
    \/ ClientDone(p)

SharedNext ==
    \/ OtherSaveMessage
    \/ ClearMessages
    \/ \E p \in Clients : SharedClientNext(p)

SpecShared == Init /\ [][SharedNext]_vars

\* the status labels the model may pass: those of the tool schemas and those
\* of the task store
StatusLabels == statusEnum \cup TASK_STATUSES

\* the calls of the task tools, with and without a status
StatusToolCalls ==
    {[name |-> "create_task",
      args |-> [type |-> "task", title |-> Txt("T"), description |-> Txt("D"), status |-> st]] :
        st \in StatusLabels}
    \cup {[name |-> "update_task", args |-> [id |-> 1, status |-> st]] : st \in StatusLabels}
    \cup {[name |-> "list_tasks", args |-> [status |-> st]] : st \in StatusLabels}
    \cup {[name |-> "create_task",
           args |-> [type |-> "epic", title |-> Txt("T"), description |-> Txt("D")]],
          [name |-> "update_task", args |-> [id |-> 1, type |-> "subtask"]],
          [name |-> "update_task", args |-> [id |-> 2, type |-> "subtask"]],
          [name |-> "update_task",
           args |-> [id |-> 1, title |-> Txt("N"), description |-> Txt("N")]],
          [name |-> "list_tasks", args |-> [x \in {} |-> 0]],
          [name |-> "delete_task", args |-> [id |-> 1]],
          [name |-> "vector_search", args |-> [query |-> Txt("D")]],
          [name |-> "vector_get", args |-> [id |-> Txt("7")]]}

\* await tool.invoke(call.args): the schema is checked, then func runs up to its
\* first awaited store statement
ToolInvoke ==
    /\ op[Agent].pc = "idle"
    /\ \E call \in StatusToolCalls :
          /\ IF SchemaValid(call.name, call.args)
             THEN HandlerBegin(call.name, call.args)
             ELSE op' = [op EXCEPT ![Agent] =
                            Threw("schema", ToolInputError) @@ [call |-> call]]
    /\ UNCHANGED <<storeVars, issued, loopVars>>

\* the task tools invoked one after the other on the store of InitLoop
ToolsNext ==
    \/ ToolInvoke
    \/ ToolStoreStep
    \/ ClientDone(Agent)

SpecTools == InitLoop /\ [][ToolsNext]_vars

\* the store of InitLoop with no turn saved yet
InitTurns ==
    /\ tasks = LoopInitialTasks
    /\ taskSeq = 1
    /\ task_links = {}
    /\ chat = <<>>
    /\ chatSeq = 0
    /\ lastRowid = 1
    /\ now = 0
    /\ op = [p \in Procs |-> Idle]
    /\ issued = <<FormatCode(1)>>
    /\ lpc = "idle"
    /\ input = <<>>
    /\ messages = <<>>
    /\ step = 0
    /\ response = NoResponse
    /\ idx = 0
    /\ reply = NoReply
    /\ saved = NoReply
    /\ invocations = 0
    /\ toolLog = <<>>

\* what the stub answers with while other requests run: plain text, or the
\* calls of the task tools
TurnsResponses ==
    {[content |-> [str |-> "What is the goal?"], tool_calls |-> <<>>],
     [content |-> [str |-> ""], tool_calls |-> <<CallUnknown, CallCreate>>],
     [content |-> [str |-> ""], tool_calls |-> <<CallDelete, CallUpdate, CallList>>],
     [content |-> [str |-> ""], tool_calls |-> <<CallVectorGet>>]}

\* one POST /messages, from the request through the tool loop to the saved
\* turn, while other requests save their turns or clear the table and the
\* clock runs
TurnsNext ==
    \/ Tick
    \/ OtherSaveMessage
    \/ ClearMessages
    \/ SendMessage
    \/ LoadRecentHistory
    \/ LoadRecentHistoryFails
    \/ ModelResponds /\ response' \in TurnsResponses
    \/ ModelFails
    \/ ToolDispatch
    \/ ToolStoreStep
    \/ ToolReturn
    \/ SaveMessageInsert
    \/ SaveMessageReadBack

SpecTurns == InitTurns /\ [][TurnsNext]_vars

\* ----------------------------------------------------------------- claims
IssuedSuffix(i) == CodeSuffix(issued[i])

\* C1: the codes issued by createTask are pairwise distinct and each newly
\* issued code has a numeric suffix strictly greater than every suffix issued
\* before it, also when tasks were deleted in between.
C1_IssuedCodesStrictlyIncreasing ==
    \A i, j \in 1..Len(issued) : i < j => IssuedSuffix(i) < IssuedSuffix(j)

InCreatePastSelect(p) == op[p].pc \in {"createTask:insert", "createTask:read"}

\* C2: two concurrent createTask calls never observe the same next number,
\* both complete successfully (no store error) and receive different codes.
C2_ConcurrentCreatesDistinct ==
    /\ \A p, q \in Clients :
          (p # q /\ InCreatePastSelect(p) /\ InCreatePastSelect(q))
              => op[p].next # op[q].next
    /\ \A p \in Clients : ~(op[p].pc = "threw" /\ op[p].name = "createTask")
    /\ \A i, j \in 1..Len(issued) : i # j => issued[i] # issued[j]

\* --------------------------------------------- the turn, as messages show it
\* position of new HumanMessage(input): the last human message
InputIndex ==
    LET humans == {i \in 1..Len(messages) : messages[i].role = "human"}
    IN  IF humans = {} THEN 0 ELSE SetMax(humans)

\* positions of the model responses of this request
ResponseIndexes ==
    LET input_at == InputIndex
    IN  {i \in 1..Len(messages) : i > input_at /\ messages[i].role = "ai"}

NumResponses == Cardinality(ResponseIndexes)

\* position of the first response: right after the user message
FirstResponseIndex == InputIndex + 1

Returning == lpc \in {"save:insert", "save:read", "done"}

ExecutingTools == lpc \in {"tools", "handler"}

\* a toolModel.invoke call of this request rejected
ModelErrorHappened == invocations > NumResponses

\* call j of the response at position a has its tool-result message
HasResult(a, j) == a + j <= Len(messages)

NoToolCallsIn(a) == Len(messages[a].tool_calls) = 0

\* C3: the model is never invoked more than 6 times for one user message, and
\* if every response requested a tool call the loop ends after exactly 6
\* invocations with the fixed fallback message.
C3_StepBound ==
    /\ invocations <= 6
    /\ (Returning /\ \A a \in ResponseIndexes : ~NoToolCallsIn(a))
          => /\ invocations = 6
             /\ reply = [str |-> "Could not complete the request with available tools."]

C3_Witness ==
    /\ lpc = "done"
    /\ invocations = 6
    /\ \A a \in ResponseIndexes : ~NoToolCallsIn(a)
    /\ saved.botReply = [str |-> "Could not complete the request with available tools."]

\* C4: if the first response requests no tool call, the loop ends after one
\* model invocation, no tool ran, the task store is as before and the reply is
\* the response's text unchanged (a non-string content serialised).
C4_FirstResponseWithoutToolCalls ==
    LET at == FirstResponseIndex
    IN  (Len(messages) >= at /\ at > 1 /\ NoToolCallsIn(at))
            => /\ Returning
               /\ invocations = 1
               /\ toolLog = <<>>
               /\ Len(messages) = at
               /\ tasks = LoopInitialTasks /\ task_links = {} /\ taskSeq = 1
               /\ "str" \in DOMAIN messages[at].content => reply = messages[at].content
               /\ "parts" \in DOMAIN messages[at].content
                     => reply = [json |-> messages[at].content.parts]

C4_Witness ==
    /\ lpc = "done"
    /\ NumResponses = 1
    /\ NoToolCallsIn(FirstResponseIndex)
    /\ saved.botReply = [str |-> "What is the goal?"]

\* the tool-result message of call j of the response at position a is tagged
\* with the id of that call, when the call has one
TaggedResult(a, j) ==
    LET call == messages[a].tool_calls[j]
    IN  /\ messages[a + j].role = "tool"
        /\ "id" \in DOMAIN call => messages[a + j].tool_call_id = call.id

\* the position of the last response
LastOf(responses) == SetMax(responses)

\* C5: the tool calls of a response run one at a time in the order listed:
\* a func starts only after the previous call's func has ended and its result
\* was appended, the results are appended in the order of the calls, and a
\* list_tasks that follows a successful update_task shows the task as updated.
C5_ToolCallsSequentialInOrder ==
    /\ \A k \in 1..Len(toolLog) :
          IF k % 2 = 1
          THEN /\ toolLog[k].event = "start"
               /\ k > 2 => \/ toolLog[k - 2].step < toolLog[k].step
                           \/ /\ toolLog[k - 2].step = toolLog[k].step
                              /\ toolLog[k - 2].idx < toolLog[k].idx
          ELSE /\ toolLog[k].event \in {"returned", "threw"}
               /\ toolLog[k].step = toolLog[k - 1].step
               /\ toolLog[k].idx = toolLog[k - 1].idx
    /\ LET responses == ResponseIndexes
       IN  /\ \A a \in responses :
                 \A j \in 1..Len(messages[a].tool_calls) :
                     HasResult(a, j) => TaggedResult(a, j)
           /\ ExecutingTools => Len(messages) = LastOf(responses) + idx - 1
    /\ lpc = "handler" => /\ Len(toolLog) % 2 = 1
                          /\ toolLog[Len(toolLog)].step = step
                          /\ toolLog[Len(toolLog)].idx = idx
    /\ \A i \in 1..(Len(messages) - 1) :
          (/\ messages[i].role = "tool" /\ messages[i + 1].role = "tool"
           /\ messages[i].content.kind = "Updated task"
           /\ messages[i + 1].content.kind = "list")
              => messages[i].content.task \in messages[i + 1].content.tasks

\* the calls of <<delete_task, update_task, list_tasks>> have run, in that
\* order, and the list shows task 1 with the type the update gave it
C5_Witness ==
    /\ lpc = "model"
    /\ NumResponses = 1
    /\ Len(messages) = FirstResponseIndex + 3
    /\ messages[Len(messages) - 2].tool_call_id = "call_d"
    /\ messages[Len(messages) - 1].role = "tool"
    /\ messages[Len(messages) - 1].tool_call_id = "call_p"
    /\ messages[Len(messages) - 1].content.kind = "Updated task"
    /\ messages[Len(messages) - 1].content.task.type = "epic"
    /\ messages[Len(messages)].tool_call_id = "tool-call"
    /\ messages[Len(messages)].content.kind = "list"
    /\ \A t \in messages[Len(messages)].content.tasks : t.type = "epic"

\* C6: when the model is invoked after the first time, the messages end with
\* the previous response followed by exactly one tool-result message per
\* requested call, in order, each tagged with the id of its call.
C6_EveryCallHasItsResult ==
    LET responses == ResponseIndexes
    IN  (lpc = "model" /\ responses # {})
            => LET a == LastOf(responses)
                   n == Len(messages[a].tool_calls)
               IN  /\ n >= 1
                   /\ Len(messages) = a + n
                   /\ \A b \in responses :
                         \A j \in 1..Len(messages[b].tool_calls) : TaggedResult(b, j)

\* second invocation after <<archive_task, create_task>>: an unknown tool and
\* a func that threw
C6_Witness ==
    /\ lpc = "model"
    /\ NumResponses = 1
    /\ Len(messages) = FirstResponseIndex + 2
    /\ messages[FirstResponseIndex + 1].tool_call_id = "call_u"
    /\ messages[FirstResponseIndex + 2].tool_call_id = "call_c"

\* the call whose func the log entry is about
CallOf(entry) == messages[entry.at].tool_calls[entry.idx]

\* every call of the response at position a has its tool-result message
FullyAnswered(a) == Len(messages) >= a + Len(messages[a].tool_calls)

\* the response at position a is not the one whose calls are being executed
Processed(a, last) == a # last \/ ~ExecutingTools

\* after the calls of the last response: the model is about to be invoked, or
\* was invoked and failed
NextInvocationTakesPlace(responses) ==
    lpc = "model" \/ invocations > Cardinality(responses)

\* the loop ended at the step bound with the fallback message
EndedWithFallback(responses) ==
    /\ Cardinality(responses) = 6
    /\ Returning
    /\ reply = [str |-> "Could not complete the request with available tools."]

UnknownTool(call) == call.name \notin ToolNames

HasUnknownTool(a) ==
    \E j \in 1..Len(messages[a].tool_calls) : UnknownTool(messages[a].tool_calls[j])

\* C7 as stated: after a response that requested an unknown tool, the next
\* model invocation always takes place.
C7_UnknownToolNextInvocation ==
    LET responses == ResponseIndexes
    IN  (responses # {} /\ HasUnknownTool(LastOf(responses)) /\ ~ExecutingTools)
            => NextInvocationTakesPlace(responses)

\* C7 amended: a call of an unknown tool runs no func and never ends the
\* request; its result is the "is not available" message, the other calls of
\* the response are processed, and then the model is invoked again, except
\* after the 6th response, where the fallback message is returned.
C7_UnknownToolIsReported ==
    LET responses == ResponseIndexes
    IN  /\ \A k \in 1..Len(toolLog) : ~UnknownTool(CallOf(toolLog[k]))
        /\ \A a \in responses :
              /\ \A j \in 1..Len(messages[a].tool_calls) :
                    (UnknownTool(messages[a].tool_calls[j]) /\ HasResult(a, j))
                        => /\ TaggedResult(a, j)
                           /\ messages[a + j].content =
                                 [kind |-> "is not available",
                                  name |-> messages[a].tool_calls[j].name]
              /\ (HasUnknownTool(a) /\ Processed(a, LastOf(responses)))
                    => /\ FullyAnswered(a)
                       /\ a = LastOf(responses)
                             => \/ NextInvocationTakesPlace(responses)
                                \/ EndedWithFallback(responses)
        /\ lpc = "failed" => invocations > Cardinality(responses)

\* second invocation after <<archive_task, create_task>>
C7_Witness ==
    /\ lpc = "model"
    /\ NumResponses = 1
    /\ Len(messages) = FirstResponseIndex + 2
    /\ messages[FirstResponseIndex + 1].content.kind = "is not available"
    /\ messages[FirstResponseIndex + 2].tool_call_id = "call_c"
    /\ messages[FirstResponseIndex + 2].content =
          [kind |-> "Tool error", message |-> "SQLITE_CONSTRAINT"]

\* a func called for the response at position a threw
ThrewFor(a) == \E k \in 1..Len(toolLog) : toolLog[k].at = a /\ toolLog[k].event = "threw"

\* C8 as stated: after a response in which a tool func threw, the model is
\* always invoked again.
C8_ToolExceptionNextInvocation ==
    LET responses == ResponseIndexes
    IN  (responses # {} /\ ThrewFor(LastOf(responses)) /\ ~ExecutingTools)
            => NextInvocationTakesPlace(responses)

\* C8 amended: an exception of a tool func never ends the request: it becomes
\* the "Tool error" result of that call and of no other, the other calls of the
\* response are executed, and then the model is invoked again, except after
\* the 6th response, where the fallback message is returned.
C8_ToolExceptionIsReported ==
    LET responses == ResponseIndexes
    IN  /\ \A k \in 1..Len(toolLog) :
              LET a == toolLog[k].at
                  j == toolLog[k].idx
              IN  /\ a \in responses
                  /\ toolLog[k].event = "threw"
                        => /\ HasResult(a, j)
                           /\ TaggedResult(a, j)
                           /\ messages[a + j].content.kind = "Tool error"
                  /\ toolLog[k].event = "returned"
                        => /\ HasResult(a, j)
                           /\ TaggedResult(a, j)
                           /\ messages[a + j].content.kind # "Tool error"
        /\ \A a \in responses : Processed(a, LastOf(responses)) => FullyAnswered(a)
        /\ (responses # {} /\ ThrewFor(LastOf(responses)) /\ ~ExecutingTools)
              => \/ NextInvocationTakesPlace(responses)
                 \/ EndedWithFallback(responses)
        /\ lpc = "failed" => invocations > Cardinality(responses)

\* delete_task threw, update_task and list_tasks ran after it
C8_Witness ==
    /\ lpc = "model"
    /\ NumResponses = 1
    /\ Len(messages) = FirstResponseIndex + 3
    /\ messages[Len(messages) - 2].role = "tool"
    /\ messages[Len(messages) - 2].tool_call_id = "call_d"
    /\ messages[Len(messages) - 2].content =
          [kind |-> "Tool error",
           message |-> "this.tasksService.delete is not a function"]
    /\ messages[Len(messages) - 1].content.kind = "Updated task"
    /\ messages[Len(messages)].role = "tool"
    /\ messages[Len(messages)].content.kind = "list"
    /\ toolLog[Len(toolLog) - 4].event = "threw"

\* arguments that violate createTaskSchema: the title is empty
ViolatesSchema(call) == call.name = "create_task" /\ Len(call.args.title) = 0

C9_Rejected ==
    LET responses == ResponseIndexes
    IN  /\ \A k \in 1..Len(toolLog) : ~ViolatesSchema(CallOf(toolLog[k]))
        /\ \A a \in responses :
              /\ \A j \in 1..Len(messages[a].tool_calls) :
                    (ViolatesSchema(messages[a].tool_calls[j]) /\ HasResult(a, j))
                        => /\ TaggedResult(a, j)
                           /\ messages[a + j].content =
                                 [kind |-> "Tool error",
                                  message |->
                                      "Received tool input did not match expected schema"]
              /\ Processed(a, LastOf(responses)) => FullyAnswered(a)
        /\ lpc = "failed" => invocations > Cardinality(responses)

C9_StoreUntouched ==
    (lpc = "tools" /\ ViolatesSchema(response.tool_calls[idx]))
        => /\ UNCHANGED <<tasks, taskSeq, task_links, op>>
           /\ lpc' \in {"tools", "model", "save:insert"}
           /\ Len(messages') = Len(messages) + 1

\* C9: a tool call whose arguments violate the input schema runs no func and
\* leaves the task store unchanged; its result is a "Tool error" message, and
\* the loop goes on with the next call or step.
C9_SchemaViolationIsReported == []C9_Rejected /\ [][C9_StoreUntouched]_vars

\* the result of create_task with an empty title, then vector_search ran
C9_Witness ==
    /\ lpc = "model"
    /\ NumResponses = 1
    /\ messages[FirstResponseIndex + 1].tool_call_id = "call_s"
    /\ messages[FirstResponseIndex + 1].content.kind = "Tool error"
    /\ messages[FirstResponseIndex + 2].tool_call_id = "call_v"
    /\ messages[FirstResponseIndex + 2].content.kind = "results"
    /\ Len(toolLog) = 2
    /\ tasks = LoopInitialTasks

\* C10: a failed model invocation ends the request: no further model
\* invocation, no tool and no store statement can follow, no turn is saved and
\* neither a reply nor a saved message is returned.
C10_ModelErrorIsFatal ==
    ModelErrorHappened
        => /\ lpc = "failed"
           /\ invocations = NumResponses + 1
           /\ reply = NoReply
           /\ saved = NoReply
           /\ chat = LoopInitialChat
           /\ op[Agent] = Idle
           /\ ~ENABLED LoopNext

\* the third invocation failed, after tools had run
C10_Witness ==
    /\ lpc = "failed"
    /\ invocations = 3
    /\ NumResponses = 2
    /\ Len(toolLog) >= 2
    /\ chat = LoopInitialChat

\* --------------------------------------------------- termination of the loop
\* generateTaskAwareReply has been called and has not ended
InCall == lpc \in {"history", "model", "tools", "handler"}

\* Terminal(Reply): the last response requested no tool and its text is returned
TerminalReply ==
    /\ Returning
    /\ ResponseIndexes # {}
    /\ NoToolCallsIn(LastOf(ResponseIndexes))
    /\ reply # NoReply

\* Terminal(Exhausted): every response requested tools, the fallback is returned
TerminalExhausted ==
    /\ Returning
    /\ \A a \in ResponseIndexes : ~NoToolCallsIn(a)
    /\ reply = [str |-> "Could not complete the request with available tools."]

\* the error of a model invocation left generateTaskAwareReply
TerminalError == lpc = "failed" /\ reply = NoReply

Terminal == Returning \/ lpc = "failed"

ExactlyOneOutcome ==
    Cardinality({o \in {"reply", "exhausted", "error"} :
                    \/ o = "reply" /\ TerminalReply
                    \/ o = "exhausted" /\ TerminalExhausted
                    \/ o = "error" /\ TerminalError}) = 1

\* after a terminal outcome the call is over and its outcome stays
TerminalIsFinal ==
    Terminal => /\ Terminal'
                /\ ~InCall'
                /\ reply' = reply
                /\ invocations' = invocations
                /\ messages' = messages

\* C11: when every model and tool invocation settles, each call of
\* generateTaskAwareReply reaches exactly one terminal outcome (a final reply,
\* the fallback at the step bound, or a propagated model error) and never goes
\* back to awaiting the model afterwards.
C11_ReachesOneTerminalOutcome ==
    /\ InCall ~> Terminal
    /\ [](Terminal => ExactlyOneOutcome)
    /\ [][TerminalIsFinal]_vars

\* a call that went through tool steps and ended with a final reply
C11_Witness ==
    /\ lpc = "done"
    /\ TerminalReply
    /\ NumResponses = 3
    /\ Len(toolLog) >= 2

\* ------------------------------------------------------------ the task graph
\* the ids a row of task_links refers to
Endpoints(l) == {l.parent_id, l.child_id}

\* the parents of a task according to the table
Incoming(id) == {l.parent_id : l \in {x \in task_links : x.child_id = id}}

\* the children of a task according to the table
Outgoing(id) == {l.child_id : l \in {x \in task_links : x.parent_id = id}}

\* the ids of the tasks a returned task record lists as relations
ShownIds(task) == {r.id : r \in task.parents \cup task.children}

\* C12: once deleteTask(t) has returned, the row of t is gone and no link has t
\* as parent or child, and what getTaskWithRelations and listTasks return
\* lists no task that does not exist.
C12_DeleteRemovesRowAndEdges ==
    \A p \in Procs :
        op[p].pc = "returned" =>
            /\ op[p].name = "delete"
                  => /\ op[p].ret.id \notin TaskIds
                     /\ \A l \in task_links : op[p].ret.id \notin Endpoints(l)
            /\ op[p].name = "get" => ShownIds(op[p].ret) \subseteq TaskIds
            /\ op[p].name = "list" => \A t \in op[p].ret : ShownIds(t) \subseteq TaskIds

\* deleteTask(2) returned; task 2 had a parent and a child
C12_Witness ==
    /\ op["c1"].pc = "returned"
    /\ op["c1"].name = "delete"
    /\ op["c1"].ret.id = 2
    /\ \E l \in op["c1"].ret.removed : l.parent_id = 2
    /\ \E l \in op["c1"].ret.removed : l.child_id = 2
    /\ Cardinality(tasks) = 1

\* C13: if a statement of deleteTask fails, the store is either fully deleted
\* (row and incident links gone) or exactly as before the call (row and
\* incident links present): the row never survives without its links.
C13_DeleteIsAtomic ==
    \A p \in Procs :
        (op[p].pc = "threw" /\ op[p].name = "delete" /\ "removed" \in DOMAIN op[p])
            => \/ /\ op[p].id \notin TaskIds
                  /\ \A l \in task_links : op[p].id \notin Endpoints(l)
               \/ /\ op[p].id \in TaskIds
                  /\ op[p].removed \subseteq task_links

\* C14: in every reachable state both endpoints of every link are existing
\* tasks, also when deleteTask(t) overlaps a setTaskRelations that names t.
C14_NoDanglingEdge == \A l \in task_links : Endpoints(l) \subseteq TaskIds

\* the arguments of a setTaskRelations call in progress or returned
RelArgs(f) == IF f.pc = "returned" THEN f.ret ELSE f

RelCall(p) == op[p].name = "setRelations" /\ op[p].pc # "threw"

\* the parent and child ids the call names
NamedIds(f) == ListIds(RelArgs(f).parents) \cup ListIds(RelArgs(f).children)

\* C15: setTaskRelations with a parent or child id that is not an existing
\* task is rejected (it never returns successfully) and no link refers to
\* the unknown id.
C15_UnknownIdsRejected ==
    \A p \in Procs :
        (op[p].pc # "idle" /\ RelCall(p))
            => /\ op[p].pc = "returned" => NamedIds(op[p]) \subseteq TaskIds
               /\ \A u \in NamedIds(op[p]) \ TaskIds :
                     \A l \in task_links : u \notin Endpoints(l)

\* C16: when setTaskRelations(id, parents, children) returns, also right after
\* an earlier call for the same task, the incoming links of id are exactly
\* the parents supplied (without id) and the outgoing links exactly the
\* children supplied (without id): a full replace, never a union.
C16_FullReplace ==
    \A p \in Procs :
        (op[p].pc = "returned" /\ op[p].name = "setRelations")
            => LET a == op[p].ret
               IN  /\ a.parents # None => Incoming(a.id) = ListIds(a.parents) \ {a.id}
                   /\ a.children # None => Outgoing(a.id) = ListIds(a.children) \ {a.id}

\* parents <<2>> were replaced by parents <<1, 3>> of task 1
C16_Witness ==
    /\ op["c1"].pc = "returned"
    /\ op["c1"].name = "setRelations"
    /\ op["c1"].ret.id = 1
    /\ op["c1"].ret.parents = Some(<<1, 3>>)
    /\ op["c1"].ret.prev # None
    /\ op["c1"].ret.prev[1].parents = Some(<<2>>)
    /\ Incoming(1) = {3}

\* C17: no link has the same task as parent and child; setTaskRelations skips
\* an id equal to the task's own id without an error and applies the other
\* ids of the list.
C17_NoSelfLoop ==
    /\ \A l \in task_links : l.parent_id # l.child_id
    /\ \A p \in Procs :
          op[p].pc # "idle" /\ op[p].name = "setRelations"
              => /\ op[p].pc # "threw"
                 /\ op[p].pc = "returned"
                       => /\ ListIds(op[p].ret.parents) \ {op[p].ret.id}
                                \subseteq Incoming(op[p].ret.id)
                          /\ ListIds(op[p].ret.children) \ {op[p].ret.id}
                                \subseteq Outgoing(op[p].ret.id)

\* task 3 named itself in both lists: only the links with task 1 exist
C17_Witness ==
    /\ op["c1"].pc = "returned"
    /\ op["c1"].name = "setRelations"
    /\ op["c1"].ret.id = 3
    /\ op["c1"].ret.parents = Some(<<1, 3>>)
    /\ op["c1"].ret.children = Some(<<3, 1>>)
    /\ LinkPairs(task_links) = {<<1, 3>>, <<3, 1>>}

\* the INSERT the call is about to run names a pair the table holds
InsertsExisting(p) ==
    \/ /\ op[p].pc = "setTaskRelations:insertParent"
       /\ ~LinkKeyFree(op[p].parents[1][op[p].i], op[p].id)
    \/ /\ op[p].pc = "setTaskRelations:insertChild"
       /\ ~LinkKeyFree(op[p].id, op[p].children[1][op[p].i])

C18_PairsUnique ==
    \A l1, l2 \in task_links :
        (l1.parent_id = l2.parent_id /\ l1.child_id = l2.child_id) => l1 = l2

C18_ExistingIsNoOp ==
    \A p \in Procs :
        (InsertsExisting(p) /\ op'[p] # op[p])
            => /\ task_links' = task_links
               /\ op'[p].pc # "threw"

\* C18: the table holds each (parent, child) pair at most once; an INSERT of
\* a pair that exists raises no error and leaves the table unchanged.
C18_EdgesDeduplicated == []C18_PairsUnique /\ [][C18_ExistingIsNoOp]_vars

\* parents <<2, 2>> of task 1 left one link
C18_Witness ==
    /\ op["c1"].pc = "returned"
    /\ op["c1"].name = "setRelations"
    /\ op["c1"].ret.id = 1
    /\ op["c1"].ret.parents = Some(<<2, 2>>)
    /\ Cardinality({l \in task_links : l.parent_id = 2 /\ l.child_id = 1}) = 1

C19_NotReturned ==
    \A p \in Procs :
        (op[p].pc = "returned" /\ op[p].name = "setRelations")
            => op[p].ret.id \in TaskIds

C19_LinksUnchanged ==
    \A p \in Procs :
        (/\ op[p].pc \notin {"idle", "returned", "threw"}
         /\ op[p].name = "setRelations"
         /\ op[p].id \notin TaskIds
         /\ op'[p] # op[p])
            => task_links' = task_links

\* C19: setTaskRelations for an id that is not an existing task fails (it
\* never returns successfully) and leaves the links unchanged.
C19_UnknownTaskNotFound == []C19_NotReturned /\ [][C19_LinksUnchanged]_vars

\* C20: after two setTaskRelations calls for the same task, both with a
\* parents list, have returned, the incoming links of the task are those of
\* one of the two lists (without the task itself), never a mixture.
C20_ConcurrentReplaceIsOneOfBoth ==
    \A p, q \in Clients :
        (/\ p # q
         /\ op[p].pc = "returned" /\ op[p].name = "setRelations"
         /\ op[q].pc = "returned" /\ op[q].name = "setRelations"
         /\ op[p].ret.id = op[q].ret.id
         /\ op[p].ret.parents # None /\ op[q].ret.parents # None)
            => Incoming(op[p].ret.id) \in
                  {ListIds(op[p].ret.parents) \ {op[p].ret.id},
                   ListIds(op[q].ret.parents) \ {op[q].ret.id}}

\* the ids of a set of {id, code, title} references
RefIds(refs) == {r.id : r \in refs}

\* the parent ids a setTaskRelations call with a parents list leaves
NewParents(f) == ListIds(f.parents) \ {f.id}

\* the child ids a setTaskRelations call leaves
NewChildren(f) == ListIds(f.children) \ {f.id}

\* what the reader's finished call shows as parents of task id, if it shows the task
ShownParents(q, id) ==
    IF op[q].pc # "returned" THEN {}
    ELSE IF op[q].name = "get" /\ op[q].ret.id = id THEN {RefIds(op[q].ret.parents)}
    ELSE IF op[q].name = "list"
         THEN {RefIds(t.parents) : t \in {x \in op[q].ret : x.id = id}}
    ELSE {}

\* C21: a getTaskWithRelations or listTasks that overlaps setTaskRelations(id,
\* parents) shows for id its complete previous parents or the complete new
\* parents; and after a setTaskRelations that failed part-way the links of id
\* are the previous ones or the new ones.
C21_RelationsReplacedAtomically ==
    LET w == op["c1"]
    IN  (w.pc # "idle" /\ w.name = "setRelations")
            => LET f == RelArgs(w)
               IN  /\ f.parents # None =>
                         \A shown \in ShownParents("c2", f.id) :
                             shown \in {f.was.parents, NewParents(f)}
                   /\ w.pc = "threw" =>
                         /\ LinkedIds(f.id).parents \in
                                {f.was.parents} \cup
                                (IF f.parents # None THEN {NewParents(f)} ELSE {})
                         /\ LinkedIds(f.id).children \in
                                {f.was.children} \cup
                                (IF f.children # None THEN {NewChildren(f)} ELSE {})

\* for all existing tasks a and b, b is among the children of a exactly
\* when a is among the parents of b: in the queries of getTaskWithRelations,
\* in the result of a getTaskWithRelations call and within the result of a
\* listTasks call
ViewsConsistent ==
    /\ \A a, b \in tasks :
          TaskRef(b) \in JoinedChildren(a.id) <=> TaskRef(a) \in JoinedParents(b.id)
    /\ \A p \in Procs :
          op[p].pc = "returned" =>
              /\ op[p].name = "get" =>
                    \A b \in tasks :
                        /\ b.id \in RefIds(op[p].ret.children)
                              <=> op[p].ret.id \in RefIds(JoinedParents(b.id))
                        /\ b.id \in RefIds(op[p].ret.parents)
                              <=> op[p].ret.id \in RefIds(JoinedChildren(b.id))
              /\ op[p].name = "list" =>
                    \A x, y \in op[p].ret :
                        y.id \in RefIds(x.children) <=> x.id \in RefIds(y.parents)

\* a TasksService.create call of request p, in progress or finished
CreateCall(p) == op[p].pc # "idle" /\ op[p].name = "create"

\* the body has a type outside the set, or no title or description left
\* after trimming
InvalidCreate(payload) ==
    \/ "type" \notin DOMAIN payload
    \/ payload.type \notin {"epic", "task", "subtask"}
    \/ "title" \notin DOMAIN payload
    \/ Trim(payload.title) = <<>>
    \/ "description" \notin DOMAIN payload
    \/ Trim(payload.description) = <<>>

\* a finished create of B with a valid body and parentIds naming existing
\* tasks has returned B, and every such A has B among its children and is
\* among the parents of B
CreatedUnderParents ==
    \A p \in Procs :
        (/\ CreateCall(p)
         /\ Finished(p)
         /\ ~InvalidCreate(op[p].payload)
         /\ "parentIds" \in DOMAIN op[p].payload
         /\ \A i \in 1..Len(op[p].payload.parentIds) :
                op[p].payload.parentIds[i] \in TaskIds)
            => /\ op[p].pc = "returned"
               /\ \A i \in 1..Len(op[p].payload.parentIds) :
                     LET a == op[p].payload.parentIds[i]
                         b == op[p].ret.id
                     IN  /\ b \in RefIds(JoinedChildren(a))
                         /\ a \in RefIds(JoinedParents(b))

\* C22: parent and child views are consistent in every reachable state: b is
\* among the children of a exactly when a is among the parents of b, in
\* getTaskWithRelations and in listTasks; and after a create of B with
\* parentIds = [A.id], the children of A contain B and the parents of B contain A.
C22_ViewsConsistentAfterCreate == ViewsConsistent /\ CreatedUnderParents

\* an update call of request p, in progress or finished
UpdateCall(p) == op[p].pc # "idle" /\ op[p].name = "update"

\* request p runs a statement of updateTask in this step
UpdateStatement(p) ==
    /\ op[p].pc \in {"updateTask:update", "updateTask:read"}
    /\ op'[p] # op[p]

\* the payload supplies none of type, description and status, or a type or
\* status outside its set, or a description that is empty after trimming
InvalidUpdate(payload) ==
    \/ DOMAIN payload \cap {"type", "description", "status"} = {}
    \/ "type" \in DOMAIN payload /\ payload.type \notin {"epic", "task", "subtask"}
    \/ "status" \in DOMAIN payload /\ payload.status \notin {"backlog", "in_progress", "done"}
    \/ "description" \in DOMAIN payload /\ Trim(payload.description) = <<>>

C23_Frame ==
    \A p \in Procs :
        UpdateStatement(p) =>
            /\ task_links' = task_links
            /\ {t.id : t \in tasks'} = TaskIds
            /\ \A t \in tasks :
                  IF t.id # op[p].id THEN t \in tasks'
                  ELSE \E u \in tasks' :
                          /\ u.id = t.id
                          /\ u.code = t.code
                          /\ u.created_at = t.created_at
                          /\ \A f \in {"type", "title", "description", "status"}
                                         \ DOMAIN op[p].payload : u[f] = t[f]

C23_Returned ==
    \A p \in Procs :
        (UpdateCall(p) /\ op[p].pc = "returned") =>
            /\ op[p].before # None
            /\ op[p].ret.id = op[p].id
            /\ op[p].ret.code = op[p].before[1].code
            /\ op[p].ret.createdAt = op[p].before[1].created_at
            /\ \A f \in {"type", "title", "description", "status"} \ DOMAIN op[p].payload :
                  op[p].ret[f] = op[p].before[1][f]

\* C23: the statements of an update of task id leave the links, every other
\* task, and of task id the id, the code, created_at and every field that was
\* not supplied unchanged; the record returned shows the same.
C23_UpdateChangesOnlySupplied == []C23_Returned /\ [][C23_Frame]_vars

\* a task created at second 0 got status done at a later second
C23_Witness ==
    /\ UpdateCall("c1")
    /\ op["c1"].pc = "returned"
    /\ op["c1"].payload = [status |-> "done"]
    /\ op["c1"].before[1].status = "backlog"
    /\ op["c1"].ret.status = "done"
    /\ op["c1"].ret.createdAt < now

\* C24 as stated: an update of an id that is not an existing task fails with a
\* not-found error.
C24_UnknownIdNotFound ==
    \A p \in Procs :
        (UpdateCall(p) /\ Finished(p) /\ op[p].id \notin TaskIds) =>
            /\ op[p].pc = "threw"
            /\ op[p].ret.error = "NotFoundException"

C24_Fails ==
    \A p \in Procs :
        (UpdateCall(p) /\ Finished(p) /\ op[p].id \notin TaskIds) =>
            /\ op[p].pc = "threw"
            /\ op[p].ret.error =
                  IF InvalidUpdate(op[p].payload) THEN "BadRequestException"
                  ELSE "NotFoundException"

C24_StoreUnchanged ==
    \A p \in Procs :
        (UpdateStatement(p) /\ op[p].id \notin TaskIds) =>
            /\ tasks' = tasks
            /\ task_links' = task_links

\* C24 amended: an update of an id that is not an existing task fails: with a
\* validation error when the payload is rejected, otherwise with a not-found
\* error; its statements change no task and no link.
C24_UnknownIdFails == []C24_Fails /\ [][C24_StoreUnchanged]_vars

\* update(3, {status: done}) while task 3 does not exist
C24_Witness ==
    /\ UpdateCall("c1")
    /\ op["c1"].pc = "threw"
    /\ op["c1"].id = 3
    /\ 3 \notin TaskIds
    /\ op["c1"].payload = [status |-> "done"]
    /\ op["c1"].ret.error = "NotFoundException"

C25_Rejected ==
    \A p \in Procs :
        (UpdateCall(p) /\ InvalidUpdate(op[p].payload)) =>
            /\ op[p].pc = "threw"
            /\ op[p].ret.error = "BadRequestException"

C25_StoreUnchanged ==
    \A p \in Procs :
        (op'[p] # op[p] /\ op'[p].pc # "idle" /\ op'[p].name = "update"
            /\ InvalidUpdate(op'[p].payload))
            => UNCHANGED <<tasks, taskSeq, task_links>>

\* C25: an update whose payload supplies no field, or a type or status outside
\* its set, or a description that is empty after trimming, fails with a
\* validation error; no statement runs for it and the store is unchanged, also
\* when other supplied fields are valid.
C25_InvalidUpdateRejected == []C25_Rejected /\ [][C25_StoreUnchanged]_vars

\* update(1, {type: bug, status: done}): the valid status was not applied
C25_Witness ==
    /\ UpdateCall("c1")
    /\ op["c1"].pc = "threw"
    /\ op["c1"].id = 1
    /\ op["c1"].payload = [type |-> "bug", status |-> "done"]
    /\ op["c1"].ret.error = "BadRequestException"
    /\ 1 \in TaskIds
    /\ TaskById(1).status = "backlog"

C26_Rejected ==
    \A p \in Procs :
        (CreateCall(p) /\ InvalidCreate(op[p].payload)) =>
            /\ op[p].pc = "threw"
            /\ op[p].ret.error = "BadRequestException"

C26_NothingConsumed ==
    \A p \in Procs :
        (op'[p] # op[p] /\ op'[p].pc = "threw" /\ op'[p].name = "create"
            /\ op'[p].ret.error = "BadRequestException")
            => /\ UNCHANGED <<tasks, taskSeq, task_links, lastRowid>>
               /\ NextCodeNumber(tasks') = NextCodeNumber(tasks)

\* C26: a create whose type is outside the set, or whose title or description
\* is empty after trimming, fails with a validation error; the failed create
\* adds no row and no link and leaves the next code number as it was.
C26_InvalidCreateRejected == []C26_Rejected /\ [][C26_NothingConsumed]_vars

\* C27: a create with a valid body and no status ends with the task stored and
\* returned with status backlog, and a create into an empty table of tasks
\* returns code TASK-0001.
C27_DefaultStatusAndFirstCode ==
    \A p \in Procs :
        (CreateCall(p) /\ Finished(p) /\ ~InvalidCreate(op[p].payload)
            /\ "status" \notin DOMAIN op[p].payload) =>
            /\ op[p].pc = "returned"
            /\ op[p].ret.status = "backlog"
            /\ \A t \in tasks : t.id = op[p].ret.id => t.status = "backlog"
            /\ tasks = {t \in tasks : t.id = op[p].ret.id} =>
                  op[p].ret.code = [prefix |-> "TASK-", digits |-> <<0, 0, 0, 1>>]

\* the type and status a create or update call hands to the store
HandedToStore(p) ==
    IF op[p].pc \in {"createTask:next", "createTask:insert", "createTask:read"}
    THEN [type |-> {op[p].task.type}, status |-> {op[p].task.status}]
    ELSE IF op[p].pc \in {"updateTask:update", "updateTask:read"}
    THEN [type |-> {op[p].updates[f] : f \in DOMAIN op[p].updates \cap {"type"}},
          status |-> {op[p].updates[f] : f \in DOMAIN op[p].updates \cap {"status"}}]
    ELSE [type |-> {}, status |-> {}]

\* C28: every stored task has a type in {epic, task, subtask} and a status in
\* {backlog, in_progress, done}, and every type and status that a create or
\* an update hands to the store is in these sets.
C28_EnumeratedValues ==
    /\ \A t \in tasks :
          /\ t.type \in {"epic", "task", "subtask"}
          /\ t.status \in {"backlog", "in_progress", "done"}
    /\ \A p \in Procs :
          /\ HandedToStore(p).type \subseteq {"epic", "task", "subtask"}
          /\ HandedToStore(p).status \subseteq {"backlog", "in_progress", "done"}

\* creates and updates with type bug and status archived were attempted: a
\* rejected update of a task that another update had set to done
C28_Witness ==
    /\ UpdateCall("c1")
    /\ op["c1"].pc = "threw"
    /\ op["c1"].payload = [status |-> "archived"]
    /\ op["c1"].id \in TaskIds
    /\ TaskById(op["c1"].id).status = "done"
    /\ \E t \in tasks : t.type = "epic"

C29_Step ==
    \A p \in Procs :
        (op[p].pc = "deleteTask:select" /\ op'[p] # op[p] /\ op[p].id \notin TaskIds)
            => /\ op'[p].pc = "threw"
               /\ op'[p].ret.message = "Task not found"
               /\ UNCHANGED <<tasks, taskSeq, task_links>>

\* C29: deleteTask(id) for an id that is not an existing task throws 'Task not
\* found' at its first statement and changes no task row and no link.
C29_DeleteUnknownNotFound == [][C29_Step]_vars

\* deleteTask(3) was rejected; the two tasks and their link are still stored
C29_Witness ==
    /\ op["c1"].pc = "threw"
    /\ op["c1"].name = "delete"
    /\ op["c1"].id = 3
    /\ op["c1"].ret = PlainError("Task not found")
    /\ TaskIds = {1, 2}
    /\ LinkPairs(task_links) = {<<2, 1>>}

\* the histories a read of the stored turns may deliver
StoredHistory == {HistoryMessages(recent) : recent \in getRecentMessages(10)}

C30_Step ==
    (lpc = "history" /\ lpc' # "history") =>
        /\ lpc' = "model"
        /\ \/ \E history \in StoredHistory :
                 messages' = <<SystemMessage>> \o history \o <<HumanMessage(input)>>
           \/ messages' = <<SystemMessage, HumanMessage(input)>>
        /\ chat = <<>> => messages' = <<SystemMessage, HumanMessage(input)>>

C30_Invoked ==
    invocations >= 1 =>
        /\ messages[1] = SystemMessage
        /\ InputIndex >= 2
        /\ messages[InputIndex] = HumanMessage(input)

\* C30: loading the history never ends the request: whether the read of the
\* stored turns succeeds or fails, the loop goes on to invoke the model with
\* the system instruction, the turns read (none when the read failed or no
\* turn is stored) and the new user message.
C30_HistoryNeverThrows == []C30_Invoked /\ [][C30_Step]_vars

\* the read of the one stored turn failed and the model was invoked without it
C30_Witness ==
    /\ chat = LoopInitialChat
    /\ invocations = 1
    /\ lpc # "failed"
    /\ messages[1] = SystemMessage
    /\ InputIndex = 2
    /\ messages[2] = HumanMessage(input)

\* the `limit` turns saved last, in the order they were saved
MostRecent(limit) ==
    SubSeq(chat, IF Len(chat) > limit THEN Len(chat) - limit + 1 ELSE 1, Len(chat))

C31_Step ==
    (lpc = "history" /\ lpc' = "model" /\ Len(messages') > 2) =>
        messages' = <<SystemMessage>> \o HistoryMessages(MostRecent(HistoryLimit))
                                     \o <<HumanMessage(input)>>

\* C31: the history a request loads is made of the HistoryLimit turns saved
\* last and no others, oldest first, each turn as its user message followed by
\* its assistant message.
C31_HistoryMostRecentOldestFirst == [][C31_Step]_vars

\* messages k and k + 1 are the user message and the assistant message of a stored turn
IsStoredTurn(msgs, k) ==
    \E row \in ChatRows :
        /\ msgs[k] = HumanMessage(row.user_text)
        /\ msgs[k + 1] = [role |-> "ai", content |-> row.bot_reply, tool_calls |-> <<>>]

\* the step that reads the history builds the sequence the first invocation gets
C32_Load ==
    (lpc = "history" /\ lpc' # "history") =>
        /\ invocations' = 0
        /\ lpc' = "model"
        /\ Len(messages') >= 2
        /\ Len(messages') % 2 = 0
        /\ messages'[1] = SystemMessage
        /\ messages'[Len(messages')] = HumanMessage(input)
        /\ \A k \in 2..(Len(messages') - 1) : k % 2 = 0 => IsStoredTurn(messages', k)

\* after that step the sequence only grows, by model responses and tool results
C32_Kept ==
    (lpc \notin {"idle", "history"}) =>
        /\ Len(messages') >= Len(messages)
        /\ SubSeq(messages', 1, Len(messages)) = messages
        /\ \A i \in (Len(messages) + 1)..Len(messages') : messages'[i].role \in {"ai", "tool"}

\* C32: for one user message the history is read once, before the first model
\* invocation, which receives the system instruction, the turns read, in
\* order, and the new user message last and once; turns that other requests
\* save afterwards do not change that part of the sequence.
C32_HistoryReadOnce == [][C32_Load /\ C32_Kept]_vars

\* the model was invoked with the one turn stored at the read, ran a tool
\* call and was invoked again; another request saved a second turn after the read
C32_Witness ==
    /\ invocations = 2
    /\ lpc = "save:insert"
    /\ toolLog # <<>>
    /\ Len(chat) = 2
    /\ InputIndex = 4
    /\ IsStoredTurn(messages, 2)
    /\ messages[2] = HumanMessage(chat[1].user_text)
    /\ chat[2].user_text # chat[1].user_text

\* the loop has produced its reply: the text of a response without tool calls,
\* or the fallback after the last step
ReplyProduced ==
    /\ reply # NoReply
    /\ \/ ~HasToolCalls(response) /\ reply = ContentText(response.content)
       \/ step = MaxSteps /\ reply = Fallback

\* a step of the request that changes messages appends one turn, after the loop
C33_Step ==
    (chat' # chat) =>
        /\ lpc = "save:insert"
        /\ ReplyProduced
        /\ Len(chat') = Len(chat) + 1
        /\ SubSeq(chat', 1, Len(chat)) = chat
        /\ chat'[Len(chat')].user_text = input
        /\ chat'[Len(chat')].bot_reply = reply

\* before the reply nothing is saved; a request that succeeded saved one turn
C33_Saved ==
    /\ lpc \in {"history", "model", "tools", "handler", "save:insert", "failed"}
          => chat = LoopInitialChat
    /\ lpc = "done" =>
          /\ Len(chat) = Len(LoopInitialChat) + 1
          /\ SubSeq(chat, 1, Len(LoopInitialChat)) = LoopInitialChat
          /\ saved = [id |-> chat[Len(chat)].id, userText |-> input, botReply |-> reply]

\* C33: a turn is saved only after the loop has produced its reply: a
\* successful sendMessage appends exactly one turn with the user text and the
\* reply, nothing is saved before or during the loop, and the turns stored
\* before stay as they were.
C33_TurnSavedAfterLoop == []C33_Saved /\ [][C33_Step]_vars

\* the loop ran tools, ended with the fallback, and the turn was appended
C33_Witness ==
    /\ lpc = "done"
    /\ reply = Fallback
    /\ toolLog # <<>>
    /\ Len(chat) = 2
    /\ chat[2].bot_reply = Fallback

\* the (parent, child) pairs of a table that do not end in task id
NotInto(links, id) == LinkPairs({l \in links : l.child_id # id})

\* the (parent, child) pairs of a table that do not start at task id
NotFrom(links, id) == LinkPairs({l \in links : l.parent_id # id})

\* a statement of a call without a children list keeps every link that does not
\* end in the task, one without a parents list every link that does not start at it
C34_Step ==
    \A p \in {"c1"} :
        (op[p].pc \notin {"idle", "returned", "threw"} /\ op[p].name = "setRelations")
            => /\ op[p].children = None
                     => NotInto(task_links', op[p].id) = NotInto(task_links, op[p].id)
               /\ op[p].parents = None
                     => NotFrom(task_links', op[p].id) = NotFrom(task_links, op[p].id)

\* a call without lists returns at once and changes nothing
C34_NoLists ==
    \A p \in {"c1"} :
        (/\ op'[p] # op[p]
         /\ op'[p].pc = "returned" /\ op'[p].name = "setRelations"
         /\ op'[p].ret.parents = None /\ op'[p].ret.children = None)
            => /\ op[p].pc \in {"idle", "returned"}
               /\ task_links' = task_links

\* at the return the side of the task whose list was not supplied is as it was
C34_Returned ==
    \A p \in {"c1"} :
        (op[p].pc = "returned" /\ op[p].name = "setRelations")
            => /\ op[p].ret.children = None
                     => LinkedIds(op[p].ret.id).children = op[p].ret.was.children
               /\ op[p].ret.parents = None
                     => LinkedIds(op[p].ret.id).parents = op[p].ret.was.parents

\* C34: setTaskRelations with a parents list and no children list leaves the
\* outgoing links of the task, and every link that does not end in it, as
\* they were; with a children list and no parents list it leaves the incoming
\* links, and every link that does not start at the task, as they were; with
\* neither list it changes nothing.
C34_UnsuppliedSideUnchanged == []C34_Returned /\ [][C34_Step /\ C34_NoLists]_vars

\* parents <<1, 3>> replaced parent 3 of task 2; its child 1 and the link stayed
C34_Witness ==
    /\ op["c1"].pc = "returned"
    /\ op["c1"].name = "setRelations"
    /\ op["c1"].ret.id = 2
    /\ op["c1"].ret.parents = Some(<<1, 3>>)
    /\ op["c1"].ret.children = None
    /\ op["c1"].ret.was = [parents |-> {3}, children |-> {1}]
    /\ LinkPairs(task_links) = {<<1, 2>>, <<3, 2>>, <<2, 1>>}

\* the read-back of a createTask returns the row the call inserted
C35_Step ==
    \A p \in Clients :
        (op[p].pc = "createTask:read" /\ op'[p] # op[p])
            => /\ op'[p].pc = "returned"
               /\ op'[p].ret.code = FormatCode(op[p].next)
               /\ op'[p].ret.type = op[p].task.type
               /\ op'[p].ret.title = op[p].task.title
               /\ op'[p].ret.description = op[p].task.description
               /\ op'[p].ret.status = op[p].task.status

\* C35: createTask returns the record of the row this call inserted (its
\* type, title, description, status and the code the call computed), also
\* when another createTask or a saveMessage inserts on the shared connection
\* between the call's INSERT and its read-back by last inserted row id.
C35_ReadBackOwnRow == [][C35_Step]_vars

C36_Unique == \A t, u \in tasks : t.code = u.code => t = u

\* the INSERT of a create whose code a stored task carries fails and adds no row
C36_Step ==
    \A p \in Clients :
        (/\ op[p].pc = "createTask:insert"
         /\ op'[p] # op[p]
         /\ \E t \in tasks : t.code = FormatCode(op[p].next))
            => /\ op'[p].pc = "threw"
               /\ tasks' = tasks

\* C36: in every reachable state, also with concurrent createTask calls, no
\* two stored tasks have the same code; a create whose computed code is
\* already stored fails and adds no row.
C36_CodesUnique == []C36_Unique /\ [][C36_Step]_vars

\* two concurrent creates computed TASK-0001: one row is stored, the other failed
C36_Witness ==
    /\ op["c1"].pc = "returned" /\ op["c1"].name = "createTask"
    /\ op["c1"].ret.code = FormatCode(1)
    /\ op["c2"].pc = "threw" /\ op["c2"].name = "createTask"
    /\ op["c2"].ret = PlainError("SQLITE_CONSTRAINT")
    /\ Cardinality(tasks) = 1

\* the status of a tool call that passed its schema and reached TasksService
AdmittedStatus ==
    IF op[Agent].pc = "idle" \/ op[Agent].name = "schema" THEN None
    ELSE IF op[Agent].name \in {"create", "update"} THEN Field(op[Agent].payload, "status")
    ELSE IF op[Agent].name = "list" /\ op[Agent].pc # "returned" THEN op[Agent].filter
    ELSE None

\* C37: every status the schemas of create_task, update_task and list_tasks
\* admit is a status of the task store: a call that passed the schema with a
\* status is not rejected because of that status.
C37_AdmittedStatusIsStoreStatus ==
    /\ AdmittedStatus # None => AdmittedStatus[1] \in TASK_STATUSES
    /\ (op[Agent].pc = "threw" /\ op[Agent].name \in {"create", "update"})
          => op[Agent].ret.message # "Unknown task status"

\* func of call j of the response at position a ran to its end
FuncRan(a, j) ==
    \E k \in 1..Len(toolLog) :
        /\ toolLog[k].at = a
        /\ toolLog[k].idx = j
        /\ toolLog[k].event \in {"returned", "threw"}

\* call j of the response at position a names a registered tool with valid arguments
Runnable(a, j) ==
    LET call == messages[a].tool_calls[j]
    IN  /\ FindTool(call.name) # None
        /\ SchemaValid(call.name, call.args)

\* C38: the fallback message is returned only if all 6 responses requested
\* tool calls; a response in plain text, on any invocation from the 1st to
\* the 6th, ends the loop with that text as the reply; the tools the 6th
\* response requested are executed before the fallback is returned, with no
\* further invocation of the model.
C38_FallbackOnlyAfterSixToolResponses ==
    LET responses == ResponseIndexes
        n == Cardinality(responses)
    IN  /\ \A a \in responses :
              NoToolCallsIn(a)
                  => /\ a = LastOf(responses)
                     /\ Len(messages) = a
                     /\ Returning
                     /\ reply = ContentText(messages[a].content)
        /\ Returning =>
              /\ n >= 1 /\ n <= 6
              /\ invocations = n
              /\ reply = Fallback \/ NoToolCallsIn(LastOf(responses))
        /\ (Returning /\ reply = Fallback) =>
              LET last == LastOf(responses)
              IN  /\ n = 6
                  /\ \A a \in responses : ~NoToolCallsIn(a) /\ FullyAnswered(a)
                  /\ Len(messages) = last + Len(messages[last].tool_calls)
                  /\ \A j \in 1..Len(messages[last].tool_calls) :
                        /\ messages[last + j].role = "tool"
                        /\ Runnable(last, j) => FuncRan(last, j)

\* the 6th response requested delete_task, update_task and list_tasks: task
\* 1 was updated and listed, then the fallback was returned
C38_Witness ==
    /\ lpc = "done"
    /\ saved.botReply = Fallback
    /\ NumResponses = 6
    /\ messages[Len(messages) - 3].role = "ai"
    /\ messages[Len(messages) - 3].tool_calls = <<CallDelete, CallUpdate, CallList>>
    /\ messages[Len(messages) - 1].content.kind = "Updated task"
    /\ messages[Len(messages)].content.kind = "list"
    /\ toolLog[Len(toolLog)].at = Len(messages) - 3
    /\ toolLog[Len(toolLog)].event = "returned"
    /\ \A t \in tasks : t.type = "epic"

\* a text with no character other than whitespace
Blank(text) == \A i \in 1..Len(text) : text[i] \in Whitespace

\* C39: sendMessage with a missing text, or a text that is empty after
\* trimming, is rejected before anything else happens: the model is not
\* invoked, no tool runs, no turn is saved and the task store is unchanged.
C39_BlankTextRejected ==
    /\ (lpc # "idle" /\ Blank(input)) => lpc = "rejected"
    /\ lpc = "rejected" =>
          /\ Blank(input)
          /\ invocations = 0
          /\ toolLog = <<>>
          /\ messages = <<>>
          /\ op[Agent].pc = "idle"
          /\ saved = NoReply
          /\ chat = LoopInitialChat /\ chatSeq = 1
          /\ tasks = LoopInitialTasks /\ task_links = {} /\ taskSeq = 1

\* the text of a space and a carriage return was rejected
C39_Witness ==
    /\ lpc = "rejected"
    /\ input = <<" ", "\r">>
    /\ invocations = 0
    /\ chat = LoopInitialChat

====
